---- MODULE Spec2Model ----
(***************************************************************************)
(* A model of the kassandra engine: the value and key order, the in-memory *)
(* storage, the schema catalog, the planner and executors, the session     *)
(* dispatch (QUERY / PREPARE / EXECUTE / BATCH), the paging-state codec    *)
(* and the server's engine lock.                                           *)
(***************************************************************************)
EXTENDS Integers, Sequences, FiniteSets, TLC

(***************************************************************************)
(* Bounds of the model (not program constants).                            *)
(***************************************************************************)
MaxVal == 2
MaxSteps == 2
MaxBatch == 2
MaxPageSize == 2
MaxConcSteps == 3

(***************************************************************************)
(* Generic helpers on finite maps (functions with a finite domain).        *)
(***************************************************************************)
EmptyMap == <<>>

\* Operator arguments and LET definitions are evaluated on demand; a chain
\* of updates is evaluated step by step by asking for each intermediate value.
Evaluated(x) == x = x

Put(f, k, v) == IF Evaluated(v) /\ Evaluated(f) THEN (k :> v) @@ f ELSE f

Remove(f, k) == [x \in (DOMAIN f) \ {k} |-> f[x]]

\* The element of a one-element set.  Only({ e : x \in {v} }) is e with x
\* standing for the value v, which is computed once.
Only(S) == CHOOSE x \in S : TRUE

Range(s) == {s[i] : i \in 1..Len(s)}

(***************************************************************************)
(* CqlValue (cql/types/value.rs).  Option<CqlValue>::None is the record    *)
(* None; Some(v) is v itself.                                              *)
(***************************************************************************)
None == [tag |-> "None"]

CqlInt(n) == [tag |-> "Int", n |-> n]

CqlText(s) == [tag |-> "Text", s |-> s]

CqlBoolean(b) == [tag |-> "Boolean", b |-> b]

CqlTuple(vs) == [tag |-> "Tuple", vs |-> vs]

CqlEmpty == [tag |-> "Empty"]

\* Byte order of the strings that occur as Text key components.
StrOrder == <<"a", "b", "c", "c1", "c2", "cdc", "cluster_name", "column_name",
              "columns", "durable_writes", "k", "k1", "k2", "key",
              "keyspace_name", "keyspaces", "kind", "ks", "ks2", "local", "n",
              "position", "r", "replication", "s", "system", "system_schema",
              "t", "table_name", "tables", "v", "w">>

StrRank(s) == CHOOSE i \in 1..Len(StrOrder) : StrOrder[i] = s

\* Position of the variant in the derive(PartialOrd, Ord) enum declaration.
VariantIndex(v) ==
    CASE v.tag = "Tuple" -> 0
      [] v.tag = "Boolean" -> 2
      [] v.tag = "Int" -> 10
      [] v.tag = "Text" -> 12
      [] v.tag = "Empty" -> 25

\* An order in which Empty comes before every other variant.
CqlLess_empty_least(a, b) ==
    IF a.tag = "Empty" \/ b.tag = "Empty"
    THEN a.tag = "Empty" /\ b.tag # "Empty"
    ELSE IF VariantIndex(a) # VariantIndex(b)
    THEN VariantIndex(a) < VariantIndex(b)
    ELSE CASE a.tag = "Int" -> a.n < b.n
           [] a.tag = "Text" -> StrRank(a.s) < StrRank(b.s)
           [] a.tag = "Boolean" -> (~a.b) /\ b.b
           [] OTHER -> FALSE

\* derive(Ord) for CqlValue: first by variant position, then by payload.
CqlLess(a, b) ==
    IF VariantIndex(a) # VariantIndex(b)
    THEN VariantIndex(a) < VariantIndex(b)
    ELSE CASE a.tag = "Int" -> a.n < b.n
           [] a.tag = "Text" -> StrRank(a.s) < StrRank(b.s)
           [] a.tag = "Boolean" -> (~a.b) /\ b.b
           [] OTHER -> FALSE

\* Ord for Option<CqlValue>: None < Some(_).
OptLess(a, b) ==
    IF a = None THEN b # None
    ELSE IF b = None THEN FALSE
    ELSE CqlLess(a, b)

\* Ord for Vec<_>: lexicographic, a strict prefix is smaller.
RECURSIVE SeqLess(_, _)
SeqLess(a, b) ==
    IF a = <<>> THEN b # <<>>
    ELSE IF b = <<>> THEN FALSE
    ELSE IF Head(a) = Head(b) THEN SeqLess(Tail(a), Tail(b))
    ELSE OptLess(Head(a), Head(b))

(***************************************************************************)
(* PartitionKeyValue / ClusteringKeyValue: Simple(v) | Composite(vs) |     *)
(* Empty, ordered by derive(Ord).                                          *)
(***************************************************************************)
KeySimple(v) == [tag |-> "Simple", v |-> v]

KeyComposite(vs) == [tag |-> "Composite", vs |-> vs]

KeyEmpty == [tag |-> "Empty"]

KeyVariant(k) ==
    CASE k.tag = "Simple" -> 0
      [] k.tag = "Composite" -> 1
      [] k.tag = "Empty" -> 2

KeyLess(a, b) ==
    IF KeyVariant(a) # KeyVariant(b)
    THEN KeyVariant(a) < KeyVariant(b)
    ELSE CASE a.tag = "Simple" -> OptLess(a.v, b.v)
           [] a.tag = "Composite" -> SeqLess(a.vs, b.vs)
           [] OTHER -> FALSE

KeyLeq(a, b) == a = b \/ KeyLess(a, b)

\* impl From<CqlValue> for PartitionKeyValue
PartitionKeyFrom(v) ==
    CASE v.tag = "Empty" -> KeyEmpty
      [] v.tag = "Tuple" -> KeyComposite(v.vs)
      [] OTHER -> KeySimple(v)

\* impl From<CqlValue> for ClusteringKeyValue
ClusteringKeyFrom(v) ==
    CASE v.tag = "Empty" -> KeyEmpty
      [] v.tag = "Tuple" -> KeyComposite(v.vs)
      [] OTHER -> KeySimple(v)

\* Iteration order of a BTreeMap keyed by keys: ascending by Ord.
RECURSIVE SortKeys(_)
SortKeys(S) ==
    IF S = {} THEN <<>>
    ELSE Only({ <<m>> \o SortKeys(S \ {m})
                : m \in {CHOOSE x \in S : \A y \in S \ {x} : KeyLess(x, y)} })

(***************************************************************************)
(* ClusteringKeyValueRange / PartitionKeyValueRange and RangeBounds.       *)
(***************************************************************************)
RangeFull == [tag |-> "Full"]

RangeFrom(lo) == [tag |-> "From", lo |-> lo]

RangeTo(hi) == [tag |-> "To", hi |-> hi]

RangeOf(lo, hi) == [tag |-> "Range", lo |-> lo, hi |-> hi]

\* start_bound and end_bound are Included(lo) / Included(hi) where the range
\* has the bound and Unbounded where it has not; contains(k) follows.
RangeContains(r, k) ==
    /\ r.tag \in {"From", "Range"} => KeyLeq(r.lo, k)
    /\ r.tag \in {"To", "Range"} => KeyLeq(k, r.hi)

\* ClusteringKeyValueRange::from(self, left)
RangeRestrictFrom(r, left) ==
    CASE r.tag = "Full" -> RangeFrom(left)
      [] r.tag = "From" -> IF KeyLess(r.lo, left) THEN RangeFrom(left) ELSE r
      [] r.tag = "To" -> RangeOf(left, r.hi)
      [] r.tag = "Range" -> IF KeyLess(r.lo, left) THEN RangeOf(left, r.hi) ELSE r

(***************************************************************************)
(* storage/memory.rs: Memory { data: keyspace -> table -> partition ->     *)
(* clustering -> column -> value }.                                        *)
(***************************************************************************)
\* BTreeMap::extend: later pairs overwrite earlier ones.
RECURSIVE Extend(_, _)
Extend(row, values) ==
    IF values = <<>> THEN row
    ELSE LET next == Put(row, values[1][1], values[1][2])
         IN IF Evaluated(next) THEN Extend(next, Tail(values)) ELSE row

GetOrDefault(f, k) == IF k \in DOMAIN f THEN f[k] ELSE EmptyMap

\* data.entry(keyspace).or_default().entry(table).or_default()
EntryOrDefault(d, ks, tb) ==
    LET keyspace == GetOrDefault(d, ks)
    IN Put(d, ks, Put(keyspace, tb, GetOrDefault(keyspace, tb)))

\* A write that replaces the stored row by the written columns.
Memory_write_replacing_row(d, ks, tb, pk, ck, values) ==
    LET d2 == EntryOrDefault(d, ks, tb)
        table == d2[ks][tb]
        partition == GetOrDefault(table, pk)
        row == Extend(EmptyMap, values)
    IN IF Evaluated(d) /\ Evaluated(d2) /\ Evaluated(row)
       THEN Put(d2, ks, Put(d2[ks], tb, Put(table, pk, Put(partition, ck, row))))
       ELSE d

Memory_write(d, ks, tb, pk, ck, values) ==
    LET d2 == EntryOrDefault(d, ks, tb)
        table == d2[ks][tb]
        partition == GetOrDefault(table, pk)
        row == Extend(GetOrDefault(partition, ck), values)
    IN IF Evaluated(d) /\ Evaluated(d2) /\ Evaluated(row)
       THEN Put(d2, ks, Put(d2[ks], tb, Put(table, pk, Put(partition, ck, row))))
       ELSE d

\* A delete that drops the whole partition whatever the clustering key is.
Memory_delete_whole_partition(d, ks, tb, pk, ck) ==
    IF ks \notin DOMAIN d
    THEN [ok |-> FALSE, msg |-> "Keyspace does not exist", data |-> d]
    ELSE IF tb \notin DOMAIN d[ks]
    THEN [ok |-> FALSE, msg |-> "Table does not exist", data |-> d]
    ELSE [ok |-> TRUE, msg |-> "",
          data |-> Put(d, ks, Put(d[ks], tb, Remove(d[ks][tb], pk)))]

\* Memory::delete
Memory_delete(d, ks, tb, pk, ck) ==
    IF ks \notin DOMAIN d
    THEN [ok |-> FALSE, msg |-> "Keyspace does not exist", data |-> d]
    ELSE IF tb \notin DOMAIN d[ks]
    THEN [ok |-> FALSE, msg |-> "Table does not exist", data |-> d]
    ELSE LET table == d[ks][tb]
         IN IF ck = KeyEmpty
            THEN [ok |-> TRUE, msg |-> "",
                  data |-> Put(d, ks, Put(d[ks], tb, Remove(table, pk)))]
            ELSE IF pk \notin DOMAIN table
            THEN [ok |-> TRUE, msg |-> "", data |-> d]
            ELSE [ok |-> TRUE, msg |-> "",
                  data |-> Put(d, ks, Put(d[ks], tb,
                               Put(table, pk, Remove(table[pk], ck))))]

\* BTreeMap::range panics when the start bound is above the end bound.
RangePanics(r) == r.tag = "Range" /\ KeyLess(r.hi, r.lo)

RowEntries(pk, partition, keys) ==
    [i \in 1..Len(keys) |->
        [partition |-> pk, clustering |-> keys[i], row |-> partition[keys[i]]]]

Memory_read(d, ks, tb, pk, range) ==
    Only({
      Only({
        [data |-> d2,
         panic |-> (pk \in DOMAIN d2[ks][tb] /\ RangePanics(range)),
         rows |-> RowEntries(pk, partition,
                      SortKeys({ck \in DOMAIN partition : RangeContains(range, ck)}))]
        : partition \in {GetOrDefault(d2[ks][tb], pk)} })
      : d2 \in {EntryOrDefault(d, ks, tb)} })

RECURSIVE FlattenPartitions(_, _)
FlattenPartitions(table, pks) ==
    IF pks = <<>> THEN <<>>
    ELSE RowEntries(pks[1], table[pks[1]], SortKeys(DOMAIN table[pks[1]]))
         \o FlattenPartitions(table, Tail(pks))

\* A scan that yields the rows in descending order.
Memory_scan_last_first(d, ks, tb, range) ==
    Only({
      Only({
        [data |-> d2,
         panic |-> RangePanics(range),
         rows |-> [i \in 1..Len(rows) |-> rows[Len(rows) + 1 - i]]]
        : rows \in {FlattenPartitions(d2[ks][tb],
                        SortKeys({pk \in DOMAIN d2[ks][tb] : RangeContains(range, pk)}))} })
      : d2 \in {EntryOrDefault(d, ks, tb)} })

Memory_scan(d, ks, tb, range) ==
    Only({
      [data |-> d2,
       panic |-> RangePanics(range),
       rows |-> FlattenPartitions(d2[ks][tb],
                    SortKeys({pk \in DOMAIN d2[ks][tb] : RangeContains(range, pk)}))]
      : d2 \in {EntryOrDefault(d, ks, tb)} })

(***************************************************************************)
(* cql/schema: the catalog.  A TableSchema is [columns, partition_key,     *)
(* clustering_key]; columns is the ordered column map as a sequence of     *)
(* [name, kind, ty].                                                       *)
(***************************************************************************)
Column(name, kind, ty) == [name |-> name, kind |-> kind, ty |-> ty]

PrimaryKeyEmpty == [tag |-> "Empty"]

\* PrimaryKey::from_definition
from_definition(names) ==
    CASE Len(names) = 0 -> PrimaryKeyEmpty
      [] Len(names) = 1 -> [tag |-> "Simple", name |-> names[Len(names)]]
      [] OTHER -> [tag |-> "Composite", names |-> names]

\* impl IntoIterator for &PrimaryKey
PrimaryKeyNames(pk) ==
    CASE pk.tag = "Empty" -> <<>>
      [] pk.tag = "Simple" -> <<pk.name>>
      [] pk.tag = "Composite" -> pk.names

\* PrimaryKey::count
PrimaryKeyCount(pk) == Len(PrimaryKeyNames(pk))

ColumnNames(schema) == {schema.columns[i].name : i \in 1..Len(schema.columns)}

ColumnOf(schema, name) ==
    schema.columns[CHOOSE i \in 1..Len(schema.columns) : schema.columns[i].name = name]

\* system_table!: partition-key columns, clustering columns, regular
\* columns, in that order.  Only the tables and columns the engine itself
\* writes are kept.
SystemTable(ks, name, pks, cks, regs) ==
    [keyspace |-> ks, name |-> name,
     schema |-> [columns |->
                    [i \in 1..Len(pks) |-> Column(pks[i], "partition_key", "text")]
                    \o [i \in 1..Len(cks) |-> Column(cks[i], "clustering", "text")]
                    \o [i \in 1..Len(regs) |-> Column(regs[i], "regular", "text")],
                 partition_key |-> from_definition(pks),
                 clustering_key |-> from_definition(cks)]]

system_keyspace ==
    [name |-> "system",
     tables |-> [n \in {"local"} |->
                    SystemTable("system", "local", <<"key">>, <<>>, <<"cluster_name">>)]]

system_schema_keyspace ==
    [name |-> "system_schema",
     tables |-> [n \in {"keyspaces", "tables", "columns"} |->
        CASE n = "keyspaces" ->
               SystemTable("system_schema", "keyspaces", <<"keyspace_name">>, <<>>,
                           <<"durable_writes", "replication">>)
          [] n = "tables" ->
               SystemTable("system_schema", "tables", <<"keyspace_name">>,
                           <<"table_name">>, <<"cdc">>)
          [] n = "columns" ->
               SystemTable("system_schema", "columns", <<"keyspace_name">>,
                           <<"table_name", "column_name">>, <<"kind", "position">>)]]

\* impl Default for Schema
Schema_default ==
    [n \in {"system", "system_schema"} |->
        IF n = "system" THEN system_keyspace ELSE system_schema_keyspace]

\* Schema::get_table
get_table(schema, ks, tb) ==
    IF ks \in DOMAIN schema /\ tb \in DOMAIN schema[ks].tables
    THEN schema[ks].tables[tb].schema
    ELSE None

\* A create_keyspace that refuses an existing keyspace even when the
\* existence is to be ignored.
Schema_create_keyspace_never_ignoring(schema, keyspace, ignore_existence) ==
    IF keyspace \in DOMAIN schema
    THEN [ok |-> FALSE, schema |-> schema,
          error |-> [kind |-> "AlreadyExists", keyspace |-> keyspace, table |-> ""]]
    ELSE LET ks == [name |-> keyspace, tables |-> EmptyMap]
         IN [ok |-> TRUE, schema |-> Put(schema, keyspace, ks), value |-> ks]

\* Schema::create_keyspace
Schema_create_keyspace(schema, keyspace, ignore_existence) ==
    IF keyspace \in DOMAIN schema
    THEN IF ignore_existence
         THEN [ok |-> TRUE, schema |-> schema, value |-> schema[keyspace]]
         ELSE [ok |-> FALSE, schema |-> schema,
               error |-> [kind |-> "AlreadyExists", keyspace |-> keyspace, table |-> ""]]
    ELSE LET ks == [name |-> keyspace, tables |-> EmptyMap]
         IN [ok |-> TRUE, schema |-> Put(schema, keyspace, ks), value |-> ks]

\* A create_table that takes every existing table as if the existence were
\* ignored.
Schema_create_table_ignoring_existence(schema, keyspace, table, ignore_existence, tschema) ==
    IF keyspace \notin DOMAIN schema
    THEN [ok |-> FALSE, schema |-> schema, error |-> [kind |-> "Invalid"]]
    ELSE IF table \in DOMAIN schema[keyspace].tables
    THEN [ok |-> TRUE, schema |-> schema,
          value |-> schema[keyspace].tables[table]]
    ELSE LET t == [keyspace |-> keyspace, name |-> table, schema |-> tschema]
             ks == schema[keyspace]
         IN [ok |-> TRUE, value |-> t,
             schema |-> Put(schema, keyspace,
                            [ks EXCEPT !.tables = Put(ks.tables, table, t)])]

\* Schema::create_table
Schema_create_table(schema, keyspace, table, ignore_existence, tschema) ==
    IF keyspace \notin DOMAIN schema
    THEN [ok |-> FALSE, schema |-> schema, error |-> [kind |-> "Invalid"]]
    ELSE IF table \in DOMAIN schema[keyspace].tables
    THEN IF ignore_existence
         THEN [ok |-> TRUE, schema |-> schema,
               value |-> schema[keyspace].tables[table]]
         ELSE [ok |-> FALSE, schema |-> schema,
               error |-> [kind |-> "AlreadyExists", keyspace |-> keyspace,
                          table |-> table]]
    ELSE LET t == [keyspace |-> keyspace, name |-> table, schema |-> tschema]
             ks == schema[keyspace]
         IN [ok |-> TRUE, value |-> t,
             schema |-> Put(schema, keyspace,
                            [ks EXCEPT !.tables = Put(ks.tables, table, t)])]

(***************************************************************************)
(* cql/schema/persisted.rs: the catalog materialised into storage.         *)
(***************************************************************************)
insert_keyspace(d, keyspace) ==
    LET pk == CqlText(keyspace.name)
    IN Memory_write(d, "system_schema", "keyspaces",
                    PartitionKeyFrom(pk), ClusteringKeyFrom(CqlEmpty),
                    << <<"keyspace_name", pk>>,
                       <<"durable_writes", CqlBoolean(TRUE)>>,
                       <<"replication",
                         [tag |-> "Map",
                          kv |-> << <<"class", "LocalStrategy">>,
                                    <<"replication_factor", "1">> >>]>> >>)

insert_table(d, table) ==
    LET pk == CqlText(table.keyspace)
        ck == CqlText(table.name)
    IN Memory_write(d, "system_schema", "tables",
                    PartitionKeyFrom(pk), ClusteringKeyFrom(ck),
                    << <<"keyspace_name", pk>>,
                       <<"table_name", ck>>,
                       <<"allow_auto_snapshot", CqlBoolean(FALSE)>>,
                       <<"incremental_backups", CqlBoolean(FALSE)>>,
                       <<"cdc", CqlBoolean(FALSE)>> >>)

\* The position counters advance in the iteration order of schema.columns.
RECURSIVE insert_columns_from(_, _, _, _, _)
insert_columns_from(d, table, i, partition_order, clustering_order) ==
    IF i > Len(table.schema.columns) THEN d
    ELSE LET col == table.schema.columns[i]
             po == IF col.kind = "partition_key" THEN partition_order + 1
                   ELSE partition_order
             co == IF col.kind = "clustering" THEN clustering_order + 1
                   ELSE clustering_order
             order == CASE col.kind = "partition_key" -> po
                        [] col.kind = "clustering" -> co
                        [] OTHER -> -1
         IN Only({ insert_columns_from(d2, table, i + 1, po, co)
                   : d2 \in {Memory_write(d, "system_schema", "columns",
                      PartitionKeyFrom(CqlText(table.keyspace)),
                      ClusteringKeyFrom(CqlTuple(<<CqlText(table.name), CqlText(col.name)>>)),
                      << <<"keyspace_name", CqlText(table.keyspace)>>,
                         <<"table_name", CqlText(table.name)>>,
                         <<"column_name", CqlText(col.name)>>,
                         <<"clustering_order", CqlText("none")>>,
                         <<"column_name_bytes", [tag |-> "Blob", of |-> col.name]>>,
                         <<"kind", CqlText(col.kind)>>,
                         <<"position", CqlInt(order)>>,
                         <<"type", CqlText(col.ty)>> >>)} })

insert_columns(d, table) == insert_columns_from(d, table, 1, -1, -1)

\* The tables of a system keyspace in a fixed order (the order does not
\* affect the rows written: each table writes its own keys).
RECURSIVE persist_tables(_, _, _)
persist_tables(d, keyspace, names) ==
    IF names = {} THEN d
    ELSE Only({ persist_tables(insert_columns(insert_table(d, keyspace.tables[n]),
                                              keyspace.tables[n]),
                               keyspace, names \ {n})
                : n \in {CHOOSE x \in names : TRUE} })

persist_system_schema(d) ==
    persist_tables(
        insert_keyspace(
            persist_tables(insert_keyspace(d, system_keyspace),
                           system_keyspace, DOMAIN system_keyspace.tables),
            system_schema_keyspace),
        system_schema_keyspace, DOMAIN system_schema_keyspace.tables)

\* PersistedSchema::create_keyspace
PersistedSchema_create_keyspace(e, keyspace, ignore_existence) ==
    Only({
      IF ~r.ok THEN [ok |-> FALSE, error |-> r.error, engine |-> e]
      ELSE [ok |-> TRUE,
            engine |-> [e EXCEPT !.schema = r.schema,
                                 !.data = insert_keyspace(e.data, r.value)]]
      : r \in {Schema_create_keyspace(e.schema, keyspace, ignore_existence)} })

\* A create_table that writes the table's row and not its columns' rows.
PersistedSchema_create_table_without_columns(e, keyspace, table, ignore_existence, tschema) ==
    Only({
      IF ~r.ok THEN [ok |-> FALSE, error |-> r.error, engine |-> e]
      ELSE [ok |-> TRUE,
            engine |-> [e EXCEPT !.schema = r.schema,
                                 !.data = insert_table(e.data, r.value)]]
      : r \in {Schema_create_table(e.schema, keyspace, table, ignore_existence,
                                   tschema)} })

\* PersistedSchema::create_table
PersistedSchema_create_table(e, keyspace, table, ignore_existence, tschema) ==
    Only({
      IF ~r.ok THEN [ok |-> FALSE, error |-> r.error, engine |-> e]
      ELSE [ok |-> TRUE,
            engine |-> [e EXCEPT !.schema = r.schema,
                                 !.data = insert_columns(insert_table(e.data, r.value),
                                                         r.value)]]
      : r \in {Schema_create_table(e.schema, keyspace, table, ignore_existence,
                                   tschema)} })

\* impl Default for KvEngine
KvEngine_default ==
    [data |-> persist_system_schema(EmptyMap),
     schema |-> Schema_default,
     query_cache |-> EmptyMap]

(***************************************************************************)
(* Results of fallible operations: Ok(value), Err(error) or a panic        *)
(* (unreachable!, unimplemented!, todo!).                                  *)
(***************************************************************************)
Some(x) == [tag |-> "Some", v |-> x]

Ok(v) == [tag |-> "Ok", value |-> v]

Err(e) == [tag |-> "Err", error |-> e]

Panic == [tag |-> "Panic"]

\* Error::new(kind, msg)
Error_new(kind, msg) == [kind |-> kind, msg |-> msg]

\* impl From<DbError> for Error
Error_from(kind) == Error_new(kind, kind)

(***************************************************************************)
(* Statements (the parser's output).  Terms of a WHERE or VALUES clause    *)
(* are literals or bind markers.                                           *)
(***************************************************************************)
Literal(lit) == [tag |-> "Literal", lit |-> lit]

Number(n) == [tag |-> "Number", n |-> n]

LiteralNull == [tag |-> "Null"]

Blankslate == [tag |-> "Blankslate"]

\* FrameValue: Some(bytes) | Null | NotSet
FrameSome(bytes) == [tag |-> "Some", bytes |-> bytes]

FrameNull == [tag |-> "Null"]

FrameNotSet == [tag |-> "NotSet"]

\* The driver's encoding of an int bind value: 4 bytes, big endian.
\* Only non-negative values below 2^24 are used.
serialize_int(n) == <<0, (n \div 65536) % 256, (n \div 256) % 256, n % 256>>

\* deserialize_value for ColumnType::Int: nom be_i32 over the first 4 bytes.
deserialize_value(bytes, ty) ==
    IF ty # "int" THEN Panic
    ELSE IF Len(bytes) < 4 THEN Err(Error_new("ProtocolError", "Parsing error"))
    ELSE LET hi == IF bytes[1] >= 128 THEN bytes[1] - 256 ELSE bytes[1]
         IN Ok(CqlInt(hi * 16777216 + bytes[2] * 65536 + bytes[3] * 256 + bytes[4]))

\* map_lit
map_lit(ty, lit) ==
    CASE lit.tag = "Null" -> Ok(CqlEmpty)
      [] lit.tag = "String" /\ ty = "text" -> Ok(CqlText(lit.s))
      [] lit.tag = "Number" /\ ty = "int" -> Ok(CqlInt(lit.n))
      [] OTHER -> Err(Error_new("Invalid", "invalid literal"))

(***************************************************************************)
(* cql/plan/data_reader.rs                                                 *)
(***************************************************************************)
\* The same iterator with a not-set bind value read as an empty value.
RECURSIVE parse_values_not_set_as_empty(_, _, _, _)
parse_values_not_set_as_empty(schema, inputs, data, raw) ==
    IF inputs = <<>> THEN Ok(raw)
    ELSE LET column == inputs[1][1]
             value == inputs[1][2]
         IN IF column \notin ColumnNames(schema)
            THEN Err(Error_new("Invalid", "unknown column"))
            ELSE IF value.tag = "Literal"
            THEN LET r == map_lit(ColumnOf(schema, column).ty, value.lit)
                 IN IF r.tag # "Ok" THEN r
                    ELSE parse_values_not_set_as_empty(schema, Tail(inputs), data,
                                      Put(raw, column, r.value))
            ELSE IF data = <<>>
            THEN Err(Error_new("Invalid", "Missing required blankslate value"))
            ELSE LET next_value == Head(data)
                 IN CASE next_value.tag = "NotSet" ->
                           parse_values_not_set_as_empty(schema, Tail(inputs), Tail(data),
                                        Put(raw, column, CqlEmpty))
                      [] next_value.tag = "Null" ->
                           parse_values_not_set_as_empty(schema, Tail(inputs), Tail(data),
                                        Put(raw, column, None))
                      [] OTHER ->
                           LET r == deserialize_value(next_value.bytes,
                                                      ColumnOf(schema, column).ty)
                           IN IF r.tag # "Ok" THEN r
                              ELSE parse_values_not_set_as_empty(schema, Tail(inputs), Tail(data),
                                                Put(raw, column, r.value))

\* ParsedValuesIter collected into Result<HashMap<String, Option<CqlValue>>>
RECURSIVE parse_values(_, _, _, _)
parse_values(schema, inputs, data, raw) ==
    IF inputs = <<>> THEN Ok(raw)
    ELSE LET column == inputs[1][1]
             value == inputs[1][2]
         IN IF column \notin ColumnNames(schema)
            THEN Err(Error_new("Invalid", "unknown column"))
            ELSE IF value.tag = "Literal"
            THEN LET r == map_lit(ColumnOf(schema, column).ty, value.lit)
                 IN IF r.tag # "Ok" THEN r
                    ELSE parse_values(schema, Tail(inputs), data,
                                      Put(raw, column, r.value))
            ELSE IF data = <<>>
            THEN Err(Error_new("Invalid", "Missing required blankslate value"))
            ELSE LET next_value == Head(data)
                 IN CASE next_value.tag = "NotSet" ->
                           parse_values(schema, Tail(inputs), Tail(data), raw)
                      [] next_value.tag = "Null" ->
                           parse_values(schema, Tail(inputs), Tail(data),
                                        Put(raw, column, None))
                      [] OTHER ->
                           LET r == deserialize_value(next_value.bytes,
                                                      ColumnOf(schema, column).ty)
                           IN IF r.tag # "Ok" THEN r
                              ELSE parse_values(schema, Tail(inputs), Tail(data),
                                                Put(raw, column, r.value))

\* DataPayload::read
DataPayload_read(schema, columns, data) == parse_values(schema, columns, data, EmptyMap)

\* A key component that must be present and not null.
Present(raw, key) == key \in DOMAIN raw /\ raw[key] # None

\* The same extraction with an empty value for a component that is missing
\* or null.
get_partition_key_unchecked(schema, raw) ==
    LET pk == schema.partition_key
        at(n) == IF Present(raw, n) THEN raw[n] ELSE CqlEmpty
    IN CASE pk.tag = "Empty" -> Panic
         [] pk.tag = "Simple" -> Ok(KeySimple(at(pk.name)))
         [] pk.tag = "Composite" ->
              Ok(KeyComposite([i \in 1..Len(pk.names) |-> at(pk.names[i])]))

\* DataPayload::get_partition_key
get_partition_key(schema, raw) ==
    LET pk == schema.partition_key
    IN CASE pk.tag = "Empty" -> Panic
         [] pk.tag = "Simple" ->
              IF Present(raw, pk.name) THEN Ok(KeySimple(raw[pk.name]))
              ELSE Err(Error_from("Invalid"))
         [] pk.tag = "Composite" ->
              IF \A i \in 1..Len(pk.names) : Present(raw, pk.names[i])
              THEN Ok(KeyComposite([i \in 1..Len(pk.names) |-> raw[pk.names[i]]]))
              ELSE Err(Error_from("Invalid"))

\* The same extraction with the null check on components dropped.
get_clustering_key_no_presence_check(schema, raw) ==
    LET ck == schema.clustering_key
        at(n) == IF n \in DOMAIN raw THEN raw[n] ELSE None
    IN CASE ck.tag = "Empty" -> Ok(KeyEmpty)
         [] ck.tag = "Simple" -> Ok(KeySimple(at(ck.name)))
         [] ck.tag = "Composite" ->
              Ok(KeyComposite([i \in 1..Len(ck.names) |-> at(ck.names[i])]))

\* DataPayload::get_clustering_key
get_clustering_key(schema, raw) ==
    LET ck == schema.clustering_key
    IN CASE ck.tag = "Empty" -> Ok(KeyEmpty)
         [] ck.tag = "Simple" ->
              IF ck.name \in DOMAIN raw THEN Ok(KeySimple(raw[ck.name]))
              ELSE Err(Error_from("Invalid"))
         [] ck.tag = "Composite" ->
              IF \A i \in 1..Len(ck.names) : ck.names[i] \in DOMAIN raw
              THEN Ok(KeyComposite([i \in 1..Len(ck.names) |-> raw[ck.names[i]]]))
              ELSE Err(Error_from("Invalid"))

\* Length of the longest prefix of the clustering columns present in raw.
RECURSIVE PrefixLen(_, _, _)
PrefixLen(names, raw, i) ==
    IF i > Len(names) \/ names[i] \notin DOMAIN raw THEN i - 1
    ELSE PrefixLen(names, raw, i + 1)

\* The composite range left open at the top, as the single-column case is.
get_clustering_key_range_open_ended(schema, raw) ==
    LET ck == schema.clustering_key
    IN CASE ck.tag = "Empty" -> Ok(RangeFull)
         [] ck.tag = "Simple" ->
              IF Present(raw, ck.name)
              THEN Ok(RangeFrom(KeySimple(raw[ck.name])))
              ELSE Ok(RangeFull)
         [] ck.tag = "Composite" ->
              LET n == PrefixLen(ck.names, raw, 1)
                  values == [i \in 1..n |-> raw[ck.names[i]]]
              IN IF \E i \in 1..n : values[i] = None
                 THEN Err(Error_new("Invalid", "clustering key value must not be null"))
                 ELSE Ok(RangeFrom(KeyComposite(values)))

\* DataPayload::get_clustering_key_range
get_clustering_key_range(schema, raw) ==
    LET ck == schema.clustering_key
    IN CASE ck.tag = "Empty" -> Ok(RangeFull)
         [] ck.tag = "Simple" ->
              IF Present(raw, ck.name)
              THEN Ok(RangeFrom(KeySimple(raw[ck.name])))
              ELSE Ok(RangeFull)
         [] ck.tag = "Composite" ->
              LET n == PrefixLen(ck.names, raw, 1)
                  values == [i \in 1..n |-> raw[ck.names[i]]]
                  upper == [i \in 1..PrimaryKeyCount(ck) |->
                               IF i <= n THEN values[i] ELSE CqlEmpty]
              IN IF \E i \in 1..n : values[i] = None
                 THEN Err(Error_new("Invalid", "clustering key value must not be null"))
                 ELSE Ok(RangeOf(KeyComposite(values), KeyComposite(upper)))

(***************************************************************************)
(* cql/plan/planner.rs                                                     *)
(***************************************************************************)
\* Ascending order of column names (BTreeMap<String, Column>).
RECURSIVE SortNames(_)
SortNames(S) ==
    IF S = {} THEN <<>>
    ELSE LET m == CHOOSE x \in S : \A y \in S : StrRank(x) <= StrRank(y)
         IN <<m>> \o SortNames(S \ {m})

\* create_table_schema
create_table_schema(columns, partition_keys, clustering_keys) ==
    LET ty(n) == (CHOOSE i \in 1..Len(columns) :
                     /\ columns[i][1] = n
                     /\ \A j \in i+1..Len(columns) : columns[j][1] # n) 
        names == SortNames({columns[i][1] : i \in 1..Len(columns)})
        kind(n) == IF n \in Range(partition_keys) THEN "partition_key"
                   ELSE IF n \in Range(clustering_keys) THEN "clustering"
                   ELSE "regular"
    IN [columns |-> [i \in 1..Len(names) |->
                        Column(names[i], kind(names[i]), columns[ty(names[i])][2])],
        partition_key |-> from_definition(partition_keys),
        clustering_key |-> from_definition(clustering_keys)]

\* The keyspace of the statement alone.
KeyspaceOr_statement_only(keyspace, use_keyspace) == keyspace

\* keyspace.or(self.use_keyspace.clone())
KeyspaceOr(keyspace, use_keyspace) == IF keyspace # None THEN keyspace ELSE use_keyspace

KeyspaceNotSpecified == Err(Error_new("Invalid", "Keyspace is not specified"))

TableDoesNotExist == Err(Error_new("Invalid", "Keyspace or table does nor exist"))

\* columns.into_iter().zip(values)
Zip(columns, values) == [i \in 1..Len(columns) |-> <<columns[i], values[i]>>]

\* values.raw.into_iter().filter_map(|(k, v)| Some((k, v?))), in the order
\* of the column names (the written row does not depend on the order).
RawValues(raw) ==
    LET names == SortNames({k \in DOMAIN raw : raw[k] # None})
    IN [i \in 1..Len(names) |-> <<names[i], raw[names[i]]>>]

\* Planner::insert
Planner_insert(schema, use_keyspace, insert, parameters) ==
    Only({
      IF keyspace = None THEN KeyspaceNotSpecified
      ELSE IF Len(insert.values) # Len(insert.columns)
      THEN Err(Error_new("SyntaxError", "Missmatch the amount of columns and values"))
      ELSE Only({
        IF tschema = None THEN TableDoesNotExist
        ELSE Only({
          IF values.tag # "Ok" THEN values
          ELSE Only({
            IF pk.tag # "Ok" THEN pk
            ELSE IF ck.tag # "Ok" THEN ck
            ELSE Ok([node |-> "Insert",
                     keyspace |-> keyspace.v,
                     table |-> insert.table,
                     partition_key |-> pk.value,
                     clustering_key |-> ck.value,
                     values |-> RawValues(values.value)])
            : pk \in {get_partition_key(tschema, values.value)},
              ck \in {get_clustering_key(tschema, values.value)} })
          : values \in {DataPayload_read(tschema, Zip(insert.columns, insert.values),
                                         parameters.data)} })
        : tschema \in {get_table(schema, keyspace.v, insert.table)} })
      : keyspace \in {KeyspaceOr(insert.keyspace, use_keyspace)} })

\* values.get_clustering_key().unwrap_or(Empty)
ClusteringKeyOrEmpty(r) == IF r.tag = "Ok" THEN r.value ELSE KeyEmpty

\* Planner::delete
Planner_delete(schema, use_keyspace, delete, parameters) ==
    Only({
      IF keyspace = None THEN KeyspaceNotSpecified
      ELSE Only({
        IF tschema = None THEN TableDoesNotExist
        ELSE Only({
          IF values.tag # "Ok" THEN values
          ELSE Only({
            IF pk.tag # "Ok" THEN pk
            ELSE Ok([node |-> "Delete",
                     keyspace |-> keyspace.v,
                     table |-> delete.table,
                     partition_key |-> pk.value,
                     clustering_key |->
                         ClusteringKeyOrEmpty(get_clustering_key(tschema, values.value))])
            : pk \in {get_partition_key(tschema, values.value)} })
          : values \in {DataPayload_read(tschema, delete.where, parameters.data)} })
        : tschema \in {get_table(schema, keyspace.v, delete.table)} })
      : keyspace \in {KeyspaceOr(delete.keyspace, use_keyspace)} })

\* Planner::delete_columns
Planner_delete_columns(schema, use_keyspace, delete, parameters) ==
    Only({
      IF keyspace = None THEN KeyspaceNotSpecified
      ELSE Only({
        IF tschema = None THEN TableDoesNotExist
        ELSE Only({
          IF values.tag # "Ok" THEN values
          ELSE Only({
            IF pk.tag # "Ok" THEN pk
            ELSE IF \E i \in 1..Len(delete.columns) :
                       delete.columns[i] \notin ColumnNames(tschema)
            THEN Err(Error_new("Invalid", "Unknown column"))
            ELSE Ok([node |-> "Insert",
                     keyspace |-> keyspace.v,
                     table |-> delete.table,
                     partition_key |-> pk.value,
                     clustering_key |->
                         ClusteringKeyOrEmpty(get_clustering_key(tschema, values.value)),
                     values |-> [i \in 1..Len(delete.columns) |->
                                    <<delete.columns[i], CqlEmpty>>]])
            : pk \in {get_partition_key(tschema, values.value)} })
          : values \in {DataPayload_read(tschema, delete.where, parameters.data)} })
        : tschema \in {get_table(schema, keyspace.v, delete.table)} })
      : keyspace \in {KeyspaceOr(delete.keyspace, use_keyspace)} })

\* Planner::create_keyspace
Planner_create_keyspace(create) ==
    Ok([node |-> "AlterSchemaKeyspace",
        name |-> create.keyspace,
        ignore_existence |-> create.ignore_existence])

\* Planner::create_table
Planner_create_table(use_keyspace, create) ==
    Only({
      IF keyspace = None THEN KeyspaceNotSpecified
      ELSE Ok([node |-> "AlterSchemaTable",
               keyspace |-> keyspace.v,
               name |-> create.table,
               ignore_existence |-> create.ignore_existence,
               schema |-> create_table_schema(create.columns, create.partition_keys,
                                              create.clustering_keys)])
      : keyspace \in {KeyspaceOr(create.keyspace, use_keyspace)} })

\* metadata / resolve_column_spec / columns_selector: the projected names.
columns_selector(tschema, columns) ==
    IF columns.tag = "All"
    THEN Ok([i \in 1..Len(tschema.columns) |-> tschema.columns[i].name])
    ELSE IF \E i \in 1..Len(columns.names) : columns.names[i] \notin ColumnNames(tschema)
    THEN Err(Error_from("Invalid"))
    ELSE Ok(columns.names)

(***************************************************************************)
(* usize arithmetic.  A usize above the small naturals is written as its   *)
(* two's complement reading: usize::MAX - k is -1 - k.                     *)
(***************************************************************************)
usize_MAX == -1

\* Iterator::take(limit)
Take(rows, limit) ==
    IF limit < 0 \/ limit >= Len(rows) THEN rows ELSE SubSeq(rows, 1, limit)

(***************************************************************************)
(* frame/write.rs and frame/value.rs: the paging token as bytes.           *)
(***************************************************************************)
\* write::unsigned_varint (LEB128 of a u64); usize::MAX - k, k < 128, takes
\* 10 bytes.
RECURSIVE unsigned_varint(_)
unsigned_varint(n) ==
    IF n < 0
    THEN <<255 - ((-1 - n) % 128), 255, 255, 255, 255, 255, 255, 255, 255, 1>>
    ELSE IF n < 128 THEN <<n>>
    ELSE <<128 + (n % 128)>> \o unsigned_varint(n \div 128)

\* write::opt_buffer_varint
opt_buffer_varint(value) ==
    IF value = None THEN unsigned_varint(0)
    ELSE unsigned_varint(Len(value.v)) \o value.v

\* write::cql_value_without_size, for Int (i32::to_be_bytes of a small
\* non-negative value); other types do not occur in the paged tables.
cql_value_without_size(v) == serialize_int(v.n)

\* impl IntoIterator for &ClusteringKeyValue
KeyValues(key) ==
    CASE key.tag = "Simple" -> <<key.v>>
      [] key.tag = "Composite" -> key.vs
      [] key.tag = "Empty" -> <<>>

RECURSIVE Pow2(_)
Pow2(n) == IF n = 0 THEN 1 ELSE 2 * Pow2(n - 1)

RECURSIVE make_header(_, _)
make_header(values, i) ==
    IF i > Len(values) THEN 0
    ELSE (CASE values[i] = None -> Pow2((i - 1) * 2 + 1)
            [] values[i] = CqlEmpty -> Pow2((i - 1) * 2)
            [] OTHER -> 0) + make_header(values, i + 1)

RECURSIVE WriteValues(_)
WriteValues(values) ==
    IF values = <<>> THEN <<>>
    ELSE (IF Head(values) = None \/ Head(values) = CqlEmpty THEN <<>>
          ELSE cql_value_without_size(Head(values))) \o WriteValues(Tail(values))

\* write::clustering_value (keys of at most 32 components)
clustering_value(key) ==
    IF key.tag = "Empty" THEN <<>>
    ELSE unsigned_varint(make_header(KeyValues(key), 1)) \o WriteValues(KeyValues(key))

\* write::partition_value
partition_value(key) == WriteValues(KeyValues(key))

\* PagingState::encode, without the [bytes] length prefix
PagingState_encode(state) ==
    opt_buffer_varint(state.partition_key) \o opt_buffer_varint(state.row_mark)
    \o unsigned_varint(state.remaining) \o unsigned_varint(state.remaining_in_partition)

\* write::bytes: an i32 length, then the bytes
write_bytes(b) == serialize_int(Len(b)) \o b

(***************************************************************************)
(* frame/request/query_params.rs and frame/parse.rs: reading it back.      *)
(***************************************************************************)
Drop(bytes, n) == SubSeq(bytes, n + 1, Len(bytes))

\* Number of bytes of the varint at the head of input, 0 when unterminated.
RECURSIVE VarintLen(_, _)
VarintLen(input, i) ==
    IF i > Len(input) THEN 0
    ELSE IF input[i] < 128 THEN i
    ELSE VarintLen(input, i + 1)

RECURSIVE VarintValue(_, _)
VarintValue(input, n) ==
    IF n = 0 THEN 0
    ELSE (input[1] % 128) + 128 * VarintValue(Tail(input), n - 1)

\* read_varint::<u32>: at most 5 bytes; returns the value and the rest.
unsigned_vint_u32(input) ==
    LET n == VarintLen(input, 1)
    IN IF n = 0 \/ n > 5 THEN Err(Error_new("Nom", "LengthValue"))
       ELSE Ok([value |-> VarintValue(input, n), rest |-> Drop(input, n)])

\* The helper with the length consumed also when it is zero.
bytes_with_vint_consuming(input) ==
    Only({
      IF len.tag # "Ok" THEN len
      ELSE IF len.value.value = 0 THEN Ok([value |-> None, rest |-> len.value.rest])
      ELSE IF Len(len.value.rest) < len.value.value THEN Err(Error_new("Nom", "Eof"))
      ELSE Ok([value |-> Some(SubSeq(len.value.rest, 1, len.value.value)),
               rest |-> Drop(len.value.rest, len.value.value)])
      : len \in {unsigned_vint_u32(input)} })

\* paging_state::bytes_with_vint: a zero length returns the input itself.
bytes_with_vint(input) ==
    Only({
      IF len.tag # "Ok" THEN len
      ELSE IF len.value.value = 0 THEN Ok([value |-> None, rest |-> input])
      ELSE IF Len(len.value.rest) < len.value.value THEN Err(Error_new("Nom", "Eof"))
      ELSE Ok([value |-> Some(SubSeq(len.value.rest, 1, len.value.value)),
               rest |-> Drop(len.value.rest, len.value.value)])
      : len \in {unsigned_vint_u32(input)} })

\* parse::paging_state
paging_state(input) ==
    Only({
      IF partition_key.tag # "Ok" THEN partition_key
      ELSE Only({
        IF row_mark.tag # "Ok" THEN row_mark
        ELSE Only({
          IF remaining.tag # "Ok" THEN remaining
          ELSE Only({
            IF remaining_in_partition.tag # "Ok" THEN remaining_in_partition
            ELSE Ok([partition_key |-> partition_key.value.value,
                     row_mark |-> row_mark.value.value,
                     remaining |-> remaining.value.value,
                     remaining_in_partition |-> remaining_in_partition.value.value])
            : remaining_in_partition \in {unsigned_vint_u32(remaining.value.rest)} })
          : remaining \in {unsigned_vint_u32(row_mark.value.rest)} })
        : row_mark \in {bytes_with_vint(partition_key.value.rest)} })
      : partition_key \in {bytes_with_vint(input)} })

\* parse::opt_paging_state: the [bytes] value (i32 length, negative = none),
\* then paging_state on its content.
opt_paging_state(rest) ==
    IF Len(rest) < 4 THEN Err(Error_new("Nom", "Eof"))
    ELSE IF rest[1] >= 128 THEN Ok(None)
    ELSE IF Len(rest) < 4 + (rest[2] * 65536 + rest[3] * 256 + rest[4])
    THEN Err(Error_new("Nom", "Eof"))
    ELSE Only({
      IF state.tag # "Ok" THEN state ELSE Ok(Some(state.value))
      : state \in {paging_state(SubSeq(rest, 5,
                                       4 + (rest[2] * 65536 + rest[3] * 256 + rest[4])))} })

\* parse::clustering_key for int columns: a header varint, then the values
\* of the components that are neither null nor empty.
RECURSIVE ReadComponents(_, _, _, _)
ReadComponents(rest, header, i, size) ==
    IF i > size THEN Ok(<<>>)
    ELSE IF (header \div Pow2((i - 1) * 2 + 1)) % 2 = 1
    THEN LET r == ReadComponents(rest, header, i + 1, size)
         IN IF r.tag # "Ok" THEN r ELSE Ok(<<None>> \o r.value)
    ELSE IF (header \div Pow2((i - 1) * 2)) % 2 = 1
    THEN LET r == ReadComponents(rest, header, i + 1, size)
         IN IF r.tag # "Ok" THEN r ELSE Ok(<<CqlEmpty>> \o r.value)
    ELSE LET v == deserialize_value(rest, "int")
         IN IF v.tag # "Ok" THEN v
            ELSE LET r == ReadComponents(Drop(rest, 4), header, i + 1, size)
                 IN IF r.tag # "Ok" THEN r ELSE Ok(<<v.value>> \o r.value)

clustering_key(input, ck) ==
    IF ck.tag = "Empty" THEN Ok(KeyEmpty)
    ELSE Only({
      IF header.tag # "Ok" THEN Err(Error_new("ProtocolError", "Parsing error"))
      ELSE Only({
        IF vs.tag # "Ok" THEN vs
        ELSE IF ck.tag = "Simple" THEN Ok(KeySimple(vs.value[1]))
        ELSE Ok(KeyComposite(vs.value))
        : vs \in {ReadComponents(header.value.rest, header.value.value, 1,
                                 PrimaryKeyCount(ck))} })
      : header \in {unsigned_vint_u32(input)} })

\* parse::partition_key for int columns
partition_key(input, pk) ==
    IF pk.tag = "Empty" THEN Panic
    ELSE Only({
      IF vs.tag # "Ok" THEN vs
      ELSE IF pk.tag = "Simple" THEN Ok(KeySimple(vs.value[1]))
      ELSE Ok(KeyComposite(vs.value))
      : vs \in {ReadComponents(input, 0, 1, PrimaryKeyCount(pk))} })

(***************************************************************************)
(* How a read plan takes its bounds from the request: the row limit, the   *)
(* page size and the position a paging state resumes from.                 *)
(***************************************************************************)
Select_limit(select, parameters) ==
    IF parameters.paging_state # None THEN parameters.paging_state.v.remaining
    ELSE IF select.limit # None THEN select.limit.v
    ELSE usize_MAX

Select_result_page_size(parameters) ==
    IF parameters.result_page_size # None THEN parameters.result_page_size.v
    ELSE usize_MAX

Select_clustering_range(tschema, range, parameters) ==
    IF parameters.paging_state = None \/ parameters.paging_state.v.row_mark = None
    THEN Ok(range)
    ELSE Only({
      IF k.tag # "Ok" THEN k ELSE Ok(RangeRestrictFrom(range, k.value))
      : k \in {clustering_key(parameters.paging_state.v.row_mark.v,
                              tschema.clustering_key)} })

Scan_partition_range(tschema, parameters) ==
    IF parameters.paging_state = None \/ parameters.paging_state.v.partition_key = None
    THEN Ok(RangeFull)
    ELSE Only({
      IF k.tag # "Ok" THEN k ELSE Ok(RangeFrom(k.value))
      : k \in {partition_key(parameters.paging_state.v.partition_key.v,
                             tschema.partition_key)} })

Scan_clustering_key_start(tschema, parameters) ==
    IF parameters.paging_state = None \/ parameters.paging_state.v.row_mark = None
    THEN Ok(RangeFull)
    ELSE Only({
      IF k.tag # "Ok" THEN k ELSE Ok(RangeFrom(k.value))
      : k \in {clustering_key(parameters.paging_state.v.row_mark.v,
                              tschema.clustering_key)} })

\* Planner::select
Planner_select(schema, use_keyspace, select, parameters) ==
    Only({
      IF keyspace = None THEN KeyspaceNotSpecified
      ELSE Only({
        IF tschema = None THEN TableDoesNotExist
        ELSE Only({
          IF values.tag # "Ok" THEN values
          ELSE Only({
            IF pk.tag # "Ok" THEN pk
            ELSE IF range.tag # "Ok" THEN range
            ELSE IF selector.tag # "Ok" THEN selector
            ELSE Only({
              IF resumed.tag # "Ok" THEN resumed
              ELSE Ok([node |-> "Select",
                       keyspace |-> keyspace.v,
                       table |-> select.table,
                       partition_key |-> pk.value,
                       clustering_range |-> resumed.value,
                       selector |-> selector.value,
                       limit |-> Select_limit(select, parameters),
                       result_page_size |-> Select_result_page_size(parameters),
                       json |-> select.json])
              : resumed \in {Select_clustering_range(tschema, range.value, parameters)} })
            : pk \in {get_partition_key(tschema, values.value)},
              range \in {get_clustering_key_range(tschema, values.value)},
              selector \in {columns_selector(tschema, select.columns)} })
          : values \in {DataPayload_read(tschema, select.where, parameters.data)} })
        : tschema \in {get_table(schema, keyspace.v, select.table)} })
      : keyspace \in {KeyspaceOr(select.keyspace, use_keyspace)} })

\* Planner::scan
Planner_scan(schema, use_keyspace, select, parameters) ==
    Only({
      IF keyspace = None THEN KeyspaceNotSpecified
      ELSE Only({
        IF tschema = None THEN TableDoesNotExist
        ELSE Only({
          IF selector.tag # "Ok" THEN selector
          ELSE IF prange.tag # "Ok" THEN prange
          ELSE IF cstart.tag # "Ok" THEN cstart
          ELSE Ok([node |-> "Scan",
                   keyspace |-> keyspace.v,
                   table |-> select.table,
                   selector |-> selector.value,
                   clustering_key_start |-> cstart.value,
                   partition_range |-> prange.value,
                   limit |-> Select_limit(select, parameters),
                   result_page_size |-> Select_result_page_size(parameters),
                   json |-> select.json])
          : selector \in {columns_selector(tschema, select.columns)},
            prange \in {Scan_partition_range(tschema, parameters)},
            cstart \in {Scan_clustering_key_start(tschema, parameters)} })
        : tschema \in {get_table(schema, keyspace.v, select.table)} })
      : keyspace \in {KeyspaceOr(select.keyspace, use_keyspace)} })

\* Planner::build
Planner_build(schema, use_keyspace, statement, parameters) ==
    CASE statement.tag = "Select" /\ statement.where # <<>> ->
            Planner_select(schema, use_keyspace, statement, parameters)
      [] statement.tag = "Select" /\ statement.where = <<>> ->
            Planner_scan(schema, use_keyspace, statement, parameters)
      [] statement.tag = "Insert" ->
            Planner_insert(schema, use_keyspace, statement, parameters)
      [] statement.tag = "Delete" /\ statement.columns = <<>> ->
            Planner_delete(schema, use_keyspace, statement, parameters)
      [] statement.tag = "Delete" /\ statement.columns # <<>> ->
            Planner_delete_columns(schema, use_keyspace, statement, parameters)
      [] statement.tag = "CreateKeyspace" -> Planner_create_keyspace(statement)
      [] statement.tag = "CreateTable" -> Planner_create_table(use_keyspace, statement)
      [] OTHER -> Panic

\* prepared_metadata: the bind positions of partition-key components and
\* the column of every term.
RECURSIVE pk_indexes(_, _, _)
pk_indexes(tschema, terms, seq) ==
    IF seq > Len(terms) THEN <<>>
    ELSE LET column == terms[seq][1]
             names == PrimaryKeyNames(tschema.partition_key)
             here == IF terms[seq][2].tag = "Blankslate" /\ column \in Range(names)
                     THEN <<[index |-> seq - 1,
                             sequence |-> (CHOOSE i \in 1..Len(names) :
                                               names[i] = column) - 1]>>
                     ELSE <<>>
         IN here \o pk_indexes(tschema, terms, seq + 1)

prepared_metadata(tschema, terms) ==
    IF \E i \in 1..Len(terms) : terms[i][1] \notin ColumnNames(tschema)
    THEN Err(Error_new("Invalid", "unknown column"))
    ELSE Ok([pk_indexes |-> pk_indexes(tschema, terms, 1),
             col_specs |-> [i \in 1..Len(terms) |-> terms[i][1]]])

\* Planner::prepare (prepare_select, prepare_insert, prepare_delete)
Planner_prepare(schema, use_keyspace, statement) ==
    IF ~(statement.tag \in {"Select", "Insert"}
         \/ (statement.tag = "Delete" /\ statement.columns = <<>>))
    THEN Err(Error_new("Invalid", "Can't prepare this type of query"))
    ELSE Only({
      IF keyspace = None THEN KeyspaceNotSpecified
      ELSE IF statement.tag = "Insert" /\ Len(statement.values) # Len(statement.columns)
      THEN Err(Error_new("SyntaxError", "Mismatch the amount of columns and values"))
      ELSE Only({
        IF tschema = None THEN TableDoesNotExist
        ELSE Only({
          IF selector.tag # "Ok" THEN selector
          ELSE IF pm.tag # "Ok" THEN pm
          ELSE Ok([prepared_metadata |-> pm.value,
                   result_metadata |-> selector.value])
          : selector \in {IF statement.tag = "Select"
                          THEN columns_selector(tschema, statement.columns)
                          ELSE Ok(<<>>)},
            pm \in {prepared_metadata(tschema,
                        IF statement.tag = "Insert"
                        THEN Zip(statement.columns, statement.values)
                        ELSE statement.where)} })
        : tschema \in {get_table(schema, keyspace.v, statement.table)} })
      : keyspace \in {KeyspaceOr(statement.keyspace, use_keyspace)} })

(***************************************************************************)
(* cql/execution: executors.  Each returns [res, engine]: the result and   *)
(* the engine after the call.                                              *)
(***************************************************************************)
Void == [kind |-> "Void"]

\* selector::filter
filter(row, selector) ==
    [i \in 1..Len(selector) |->
        IF selector[i] \in DOMAIN row THEN row[selector[i]] ELSE None]

\* PagingState::new(...) encoded into the result metadata
NewPagingState(pk, row_mark, remaining) ==
    Some(write_bytes(PagingState_encode(
        [partition_key |-> pk, row_mark |-> row_mark,
         remaining |-> remaining, remaining_in_partition |-> 1])))

Rows(node, rows, state) ==
    [kind |-> "Rows", col_specs |-> node.selector, rows |-> rows,
     paging_state |-> state]

\* SelectNode::execute
SelectNode_execute(e, node) ==
    Only({
      IF read.panic THEN [res |-> Panic, engine |-> e]
      ELSE Only({
        [res |-> Ok(Rows(node,
                         [i \in 1..n |-> filter(scan[i].row, node.selector)],
                         IF n < Len(scan)
                         THEN NewPagingState(None,
                                  Some(clustering_value(scan[n + 1].clustering)),
                                  node.limit - n)
                         ELSE None)),
         engine |-> [e EXCEPT !.data = read.data]]
        : scan \in {Take(read.rows, node.limit)},
          n \in {IF node.result_page_size < 0
                    \/ node.result_page_size >= Len(Take(read.rows, node.limit))
                 THEN Len(Take(read.rows, node.limit))
                 ELSE node.result_page_size} })
      : read \in {Memory_read(e.data, node.keyspace, node.table, node.partition_key,
                              node.clustering_range)} })

\* The loop of ScanNode::execute from entry i on: the rows pushed and the
\* entry the loop broke on (None when the iterator ended).
RECURSIVE ScanLoop(_, _, _, _, _)
ScanLoop(node, scan, i, rows, first_partition) ==
    IF i > Len(scan) THEN [rows |-> rows, last |-> None]
    ELSE IF node.result_page_size >= 0 /\ Len(rows) >= node.result_page_size
    THEN [rows |-> rows, last |-> Some(scan[i])]
    ELSE LET first == IF first_partition = None THEN scan[i].partition
                      ELSE first_partition
         IN IF scan[i].partition = first
               /\ ~RangeContains(node.clustering_key_start, scan[i].clustering)
            THEN ScanLoop(node, scan, i + 1, rows, first)
            ELSE ScanLoop(node, scan, i + 1,
                          Append(rows, filter(scan[i].row, node.selector)), first)

\* ScanNode::execute
ScanNode_execute(e, node) ==
    Only({
      IF all.panic THEN [res |-> Panic, engine |-> e]
      ELSE Only({
        [res |-> Ok(Rows(node, loop.rows,
                         IF loop.last # None
                         THEN NewPagingState(
                                  Some(partition_value(loop.last.v.partition)),
                                  Some(clustering_value(loop.last.v.clustering)),
                                  node.limit - Len(loop.rows))
                         ELSE None)),
         engine |-> [e EXCEPT !.data = all.data]]
        : loop \in {ScanLoop(node, Take(all.rows, node.limit), 1, <<>>, None)} })
      : all \in {Memory_scan(e.data, node.keyspace, node.table, node.partition_range)} })

\* json::serialize_columns: a BTreeMap from column name to value.
RECURSIVE serialize_columns(_, _, _)
serialize_columns(columns, values, map) ==
    IF columns = <<>> \/ values = <<>> THEN map
    ELSE serialize_columns(Tail(columns), Tail(values),
                           Put(map, Head(columns), Head(values)))

JsonText(map) ==
    LET names == SortNames(DOMAIN map)
    IN [tag |-> "Text", json |-> [i \in 1..Len(names) |-> <<names[i], map[names[i]]>>]]

\* JsonNode::execute applied to the inner node's result
JsonNode_execute(json, r) ==
    IF ~json \/ r.res.tag # "Ok" \/ r.res.value.kind # "Rows" THEN r
    ELSE [r EXCEPT !.res = Ok([r.res.value EXCEPT
             !.col_specs = <<"json">>,
             !.rows = [i \in 1..Len(r.res.value.rows) |->
                          <<JsonText(serialize_columns(r.res.value.col_specs,
                                                       r.res.value.rows[i],
                                                       EmptyMap))>>]])]

\* InsertNode::execute
InsertNode_execute(e, node) ==
    [res |-> Ok(Void),
     engine |-> [e EXCEPT !.data = Memory_write(e.data, node.keyspace, node.table,
                                                node.partition_key, node.clustering_key,
                                                node.values)]]

\* DeleteNode::execute
DeleteNode_execute(e, node) ==
    Only({
      IF r.ok THEN [res |-> Ok(Void), engine |-> [e EXCEPT !.data = r.data]]
      ELSE [res |-> Err(Error_new("Invalid", r.msg)), engine |-> e]
      : r \in {Memory_delete(e.data, node.keyspace, node.table, node.partition_key,
                             node.clustering_key)} })

\* AlterSchema::execute
AlterSchema_execute(e, node) ==
    Only({
      IF ~r.ok THEN [res |-> Err(r.error), engine |-> e]
      ELSE [res |-> Ok(IF node.node = "AlterSchemaKeyspace"
                       THEN [kind |-> "SchemaChange", change_type |-> "Created",
                             target |-> "Keyspace", keyspace_name |-> node.name]
                       ELSE [kind |-> "SchemaChange", change_type |-> "Created",
                             target |-> "Table", keyspace_name |-> node.keyspace,
                             object_name |-> node.name]),
            engine |-> r.engine]
      : r \in {IF node.node = "AlterSchemaKeyspace"
               THEN PersistedSchema_create_keyspace(e, node.name, node.ignore_existence)
               ELSE PersistedSchema_create_table(e, node.keyspace, node.name,
                                                 node.ignore_existence, node.schema)} })

\* Plan::execute
Plan_execute(e, plan) ==
    CASE plan.node = "Select" -> JsonNode_execute(plan.json, SelectNode_execute(e, plan))
      [] plan.node = "Scan" -> JsonNode_execute(plan.json, ScanNode_execute(e, plan))
      [] plan.node = "Insert" -> InsertNode_execute(e, plan)
      [] plan.node = "Delete" -> DeleteNode_execute(e, plan)
      [] OTHER -> AlterSchema_execute(e, plan)

(***************************************************************************)
(* cql/query_cache/persisted.rs                                            *)
(***************************************************************************)
\* A store that keeps only the newest entry.
PersistedQueryCache_store_single(cache, id, query) == Put(EmptyMap, id, query)

\* PersistedQueryCache::store
PersistedQueryCache_store(cache, id, query) == Put(cache, id, query)

\* PersistedQueryCache::retrieve
PersistedQueryCache_retrieve(cache, id) == IF id \in DOMAIN cache THEN cache[id] ELSE None

(***************************************************************************)
(* session.rs: KassandraSession { use_keyspace, engine }.  Every operation *)
(* returns [res, session]: the answer and the session after the call.      *)
(***************************************************************************)
\* u128::from_be_bytes
RECURSIVE from_be_bytes(_)
from_be_bytes(bytes) ==
    IF bytes = <<>> THEN 0
    ELSE from_be_bytes(SubSeq(bytes, 1, Len(bytes) - 1)) * 256 + bytes[Len(bytes)]

\* u128::to_be_bytes
RECURSIVE be_bytes(_, _)
be_bytes(n, len) ==
    IF len = 0 THEN <<>> ELSE be_bytes(n \div 256, len - 1) \o <<n % 256>>

to_be_bytes(id) == be_bytes(id, 16)

\* QueryParameters of a request without paging
Parameters(data) == [data |-> data, result_page_size |-> None, paging_state |-> None]

\* KassandraSession::process
Session_process(session, query, parameters) ==
    IF query.tag = "Use"
    THEN [res |-> Ok([kind |-> "SetKeyspace", keyspace_name |-> query.keyspace]),
          session |-> [session EXCEPT !.use_keyspace = Some(query.keyspace)]]
    ELSE Only({
      IF plan.tag # "Ok" THEN [res |-> plan, session |-> session]
      ELSE Only({
        [res |-> r.res, session |-> [session EXCEPT !.engine = r.engine]]
        : r \in {Plan_execute(session.engine, plan.value)} })
      : plan \in {Planner_build(session.engine.schema, session.use_keyspace,
                                query, parameters)} })

InvalidId == Err(Error_new("Invalid", "Invalid id for prepared query"))

\* An unprepared error that does not carry the id.
Unprepared_without_id(id) ==
    Err([kind |-> "Unprepared", statement_id |-> <<>>, msg |-> "Unprepared query id"])

\* DbError::Unprepared { statement_id: Bytes::copy_from_slice(execute.id) }
Unprepared(id) ==
    Err([kind |-> "Unprepared", statement_id |-> id, msg |-> "Unprepared query id"])

\* An execute that runs the statement without the request's bind values.
Session_execute_without_values(session, id, parameters) ==
    IF Len(id) # 16 THEN [res |-> InvalidId, session |-> session]
    ELSE LET query == PersistedQueryCache_retrieve(session.engine.query_cache,
                                                   from_be_bytes(id))
         IN IF query = None THEN [res |-> Unprepared(id), session |-> session]
            ELSE Session_process(session, query, Parameters(<<>>))

\* KassandraSession::execute
Session_execute(session, id, parameters) ==
    IF Len(id) # 16 THEN [res |-> InvalidId, session |-> session]
    ELSE LET query == PersistedQueryCache_retrieve(session.engine.query_cache,
                                                   from_be_bytes(id))
         IN IF query = None THEN [res |-> Unprepared(id), session |-> session]
            ELSE Session_process(session, query, parameters)

\* The body of the loop of process_batch: one statement of a batch.
Session_process_batch_statement(session, statement) ==
    Only({
      IF query.tag # "Ok" THEN [res |-> query, session |-> session]
      ELSE Session_process(session, query.value, Parameters(statement.values))
      : query \in {CASE statement.kind = "Query" -> Ok(statement.query)
                     [] Len(statement.id) # 16 -> InvalidId
                     [] PersistedQueryCache_retrieve(session.engine.query_cache,
                            from_be_bytes(statement.id)) = None ->
                          Unprepared(statement.id)
                     [] OTHER ->
                          Ok(PersistedQueryCache_retrieve(session.engine.query_cache,
                                 from_be_bytes(statement.id)))} })

\* A batch that skips a failing statement and goes on with the next.
RECURSIVE Session_process_batch_skipping(_, _)
Session_process_batch_skipping(session, statements) ==
    IF statements = <<>> THEN [res |-> Ok(Void), session |-> session]
    ELSE Only({ Session_process_batch_skipping(r.session, Tail(statements))
                : r \in {Session_process_batch_statement(session, Head(statements))} })

\* KassandraSession::process_batch
RECURSIVE Session_process_batch(_, _)
Session_process_batch(session, statements) ==
    IF statements = <<>> THEN [res |-> Ok(Void), session |-> session]
    ELSE Only({
      IF r.res.tag # "Ok" THEN r
      ELSE Session_process_batch(r.session, Tail(statements))
      : r \in {Session_process_batch_statement(session, Head(statements))} })

\* A prepare that stores the statement before it is validated.
Session_prepare_with_id_store_first(session, query, id) ==
    Only({
      IF meta.tag # "Ok" THEN [res |-> meta, session |-> stored]
      ELSE [res |-> Ok([kind |-> "Prepared", id |-> to_be_bytes(id),
                        prepared_metadata |-> meta.value.prepared_metadata,
                        result_metadata |-> meta.value.result_metadata]),
            session |-> stored]
      : stored \in {[session EXCEPT !.engine.query_cache =
                        PersistedQueryCache_store(session.engine.query_cache, id, query)]},
        meta \in {Planner_prepare(session.engine.schema, session.use_keyspace, query)} })

\* KassandraSession::prepare_with_id
Session_prepare_with_id(session, query, id) ==
    Only({
      IF meta.tag # "Ok" THEN [res |-> meta, session |-> session]
      ELSE [res |-> Ok([kind |-> "Prepared", id |-> to_be_bytes(id),
                        prepared_metadata |-> meta.value.prepared_metadata,
                        result_metadata |-> meta.value.result_metadata]),
            session |-> [session EXCEPT !.engine.query_cache =
                            PersistedQueryCache_store(session.engine.query_cache,
                                                      id, query)]]
      : meta \in {Planner_prepare(session.engine.schema, session.use_keyspace, query)} })

\* init_session: the system.local row (the columns kept by the model)
init_session ==
    [node |-> "Insert", keyspace |-> "system", table |-> "local",
     partition_key |-> KeySimple(CqlText("local")),
     clustering_key |-> KeyEmpty,
     values |-> << <<"key", CqlText("local")>>,
                   <<"cluster_name", CqlText("Test Cluster")>> >>]

\* KassandraSession::new
Session_new ==
    [use_keyspace |-> None,
     engine |-> InsertNode_execute(KvEngine_default, init_session).engine]

(***************************************************************************)
(* The statements, bind values and ids the requests are drawn from.        *)
(***************************************************************************)
Vals == 1..MaxVal

Lit(n) == Literal(Number(n))

Bind(n) == FrameSome(serialize_int(n))

Ks == Some("ks")

Use(ks) == [tag |-> "Use", keyspace |-> ks]

CreateKeyspace(ks, ine) ==
    [tag |-> "CreateKeyspace", keyspace |-> ks, ignore_existence |-> ine]

CreateTable(ks, table, ine, columns, pks, cks) ==
    [tag |-> "CreateTable", keyspace |-> ks, table |-> table,
     ignore_existence |-> ine, columns |-> columns,
     partition_keys |-> pks, clustering_keys |-> cks]

CreateType == [tag |-> "CreateType"]

Insert(ks, table, columns, values) ==
    [tag |-> "Insert", keyspace |-> ks, table |-> table,
     columns |-> columns, values |-> values]

Delete(ks, table, columns, where) ==
    [tag |-> "Delete", keyspace |-> ks, table |-> table,
     columns |-> columns, where |-> where]

Select(ks, table, columns, where, limit) ==
    [tag |-> "Select", keyspace |-> ks, table |-> table, columns |-> columns,
     where |-> where, limit |-> limit, json |-> FALSE]

All == [tag |-> "All"]

IntColumns(names) == [i \in 1..Len(names) |-> <<names[i], "int">>]

\* CREATE TABLE ks.t (k1 int, k2 int, c1 int, c2 int, v int,
\*                    PRIMARY KEY ((k1, k2), c1, c2))
CreateT(ks, ine) ==
    CreateTable(ks, "t", ine, IntColumns(<<"k1", "k2", "c1", "c2", "v">>),
                <<"k1", "k2">>, <<"c1", "c2">>)

\* CREATE TABLE ks.s (k int, c int, v int, PRIMARY KEY (k, c))
CreateS(ks, ine) ==
    CreateTable(ks, "s", ine, IntColumns(<<"k", "c", "v">>), <<"k">>, <<"c">>)

\* CREATE TABLE ks.n (k int, v int, PRIMARY KEY (k))
CreateN(ks, ine) ==
    CreateTable(ks, "n", ine, IntColumns(<<"k", "v">>), <<"k">>, <<>>)

\* CREATE TABLE w (k int, v int, PRIMARY KEY (k)), in the current keyspace
CreateW == CreateTable(None, "w", FALSE, IntColumns(<<"k", "v">>), <<"k">>, <<>>)

TKey(k1, k2, c1, c2) == << <<"k1", k1>>, <<"k2", k2>>, <<"c1", c1>>, <<"c2", c2>> >>

TPartition(k1, k2) == << <<"k1", k1>>, <<"k2", k2>> >>

InsertT(k1, k2, c1, c2, v) ==
    Insert(Ks, "t", <<"k1", "k2", "c1", "c2", "v">>, <<k1, k2, c1, c2, v>>)

InsertS(k, c, v) == Insert(Ks, "s", <<"k", "c", "v">>, <<k, c, v>>)

InsertN(k, v) == Insert(Ks, "n", <<"k", "v">>, <<k, v>>)

(***************************************************************************)
(* State.  use_keyspace and the engine (data, schema, query_cache) are the *)
(* KassandraSession behind the server's mutex; request and response are    *)
(* the last request handled and its answer; returned holds the ids PREPARE *)
(* has answered with, each with its statement; conc is the state of the    *)
(* connection handlers; paging is a client following paging states.        *)
(***************************************************************************)
VARIABLES use_keyspace, data, schema, query_cache,
          request, response, steps, returned, conc, paging

vars == <<use_keyspace, data, schema, query_cache,
          request, response, steps, returned, conc, paging>>

Session == [use_keyspace |-> use_keyspace,
            engine |-> [data |-> data, schema |-> schema,
                        query_cache |-> query_cache]]

SessionBecomes(s) ==
    /\ use_keyspace' = s.use_keyspace
    /\ data' = s.engine.data
    /\ schema' = s.engine.schema
    /\ query_cache' = s.engine.query_cache

RECURSIVE ProcessAll(_, _)
ProcessAll(session, statements) ==
    IF statements = <<>> THEN session
    ELSE Only({ ProcessAll(next.session, Tail(statements))
                : next \in {Session_process(session, Head(statements),
                                            Parameters(<<>>))} })

\* A set of statements in some order (used for inserts of distinct keys).
RECURSIVE SeqOf(_)
SeqOf(S) ==
    IF S = {} THEN <<>>
    ELSE LET x == CHOOSE y \in S : TRUE IN <<x>> \o SeqOf(S \ {x})

\* A fresh session in which the client created ks and its tables.
WithSchema ==
    ProcessAll(Session_new, <<CreateKeyspace("ks", FALSE), CreateT(Ks, FALSE),
                              CreateS(Ks, FALSE), CreateN(Ks, FALSE)>>)

SeedRows ==
    {InsertT(Lit(1), Lit(1), Lit(c1), Lit(c2), Lit(1)) :
        <<c1, c2>> \in (Vals \X Vals) \ {<<MaxVal, MaxVal>>}}
    \cup {InsertT(Lit(2), Lit(1), Lit(1), Lit(1), Lit(1))}
    \cup {InsertS(Lit(1), Lit(c), Lit(1)) : c \in Vals}
    \cup {InsertS(Lit(2), Lit(1), Lit(1))}
    \cup {InsertN(Lit(k), Lit(1)) : k \in Vals}

\* The sessions a run starts from: the schema alone, or the schema and rows.
SeededSessions == UNION {{s, ProcessAll(s, SeqOf(SeedRows))} : s \in {WithSchema}}

NoRequest == [op |-> "None"]

NoConc == [lock |-> "free"]

NoPaging == [pc |-> "idle"]

InitSession(s) ==
    /\ use_keyspace = s.use_keyspace
    /\ data = s.engine.data
    /\ schema = s.engine.schema
    /\ query_cache = s.engine.query_cache
    /\ request = NoRequest
    /\ response = None
    /\ steps = 0
    /\ returned = {}

Init ==
    /\ \E s \in SeededSessions : InitSession(s)
    /\ conc = NoConc
    /\ paging = NoPaging

(***************************************************************************)
(* Server::request (kassandra-node/src/main.rs): one action per request    *)
(* kind, each the whole handler, run with the engine lock held.            *)
(***************************************************************************)
Answer(req, r) ==
    /\ SessionBecomes(IF r.res.tag = "Panic" THEN Session ELSE r.session)
    /\ request' = req
    /\ response' = r.res
    /\ steps' = steps + 1

\* Request::Query
Query(q, values) ==
    /\ steps < MaxSteps
    /\ Answer([op |-> "Query", query |-> q, values |-> values],
              Session_process(Session, q, Parameters(values)))
    /\ UNCHANGED <<returned, conc, paging>>

\* Request::Prepare: KassandraSession::prepare draws a new ULID as the id.
Prepare(q, id) ==
    /\ steps < MaxSteps
    /\ id \notin DOMAIN query_cache
    /\ \E r \in {Session_prepare_with_id(Session, q, id)} :
          /\ Answer([op |-> "Prepare", query |-> q], r)
          /\ returned' = IF r.res.tag = "Ok"
                         THEN returned \cup {[id |-> r.res.value.id, query |-> q]}
                         ELSE returned
    /\ UNCHANGED <<conc, paging>>

\* Request::Execute
Execute(id, values) ==
    /\ steps < MaxSteps
    /\ Answer([op |-> "Execute", id |-> id, values |-> values],
              Session_execute(Session, id, Parameters(values)))
    /\ UNCHANGED <<returned, conc, paging>>

\* Request::Batch
Batch(statements) ==
    /\ steps < MaxSteps
    /\ Answer([op |-> "Batch", statements |-> statements],
              Session_process_batch(Session, statements))
    /\ UNCHANGED <<returned, conc, paging>>

\* The ids a PREPARE may draw, an id no PREPARE draws, and an id of the
\* wrong length.
IdPool == 1..MaxSteps

UnknownId == to_be_bytes(0)

ShortId == <<0, 1>>

ExecuteIds == {to_be_bytes(i) : i \in IdPool} \cup {UnknownId, ShortId}

SelectTBinds == Select(Ks, "t", All, TKey(Lit(1), Lit(1), Blankslate, Blankslate), None)

SelectUnknownTable == Select(Ks, "zz", All, << <<"k", Lit(1)>> >>, None)

\* Statements without bind markers, sent as QUERY.
QueryPool ==
    {Use("ks"), CreateKeyspace("ks", FALSE), CreateKeyspace("ks", TRUE),
     CreateKeyspace("ks2", FALSE), CreateT(Ks, FALSE), CreateT(Ks, TRUE),
     CreateT(Some("zz"), FALSE), CreateW,
     Insert(Ks, "t", <<"k1", "c1", "c2", "v">>, <<Lit(1), Lit(1), Lit(1), Lit(1)>>),
     Insert(Ks, "t", <<"k1", "k2", "c1", "v">>, <<Lit(1), Lit(1), Lit(1), Lit(1)>>),
     Insert(Ks, "t", <<"k1", "k2">>, <<Lit(1)>>),
     Insert(None, "n", <<"k", "v">>, <<Lit(1), Lit(MaxVal)>>),
     SelectUnknownTable,
     Select(Ks, "t", [tag |-> "Columns", names |-> <<"v", "zz">>],
            TPartition(Lit(1), Lit(1)), None),
     Select(Ks, "t", All, TPartition(Lit(1), Lit(1)), None),
     Select(Ks, "t", All, <<>>, None),
     Delete(Ks, "t", <<>>, TPartition(Lit(1), Lit(1))),
     Delete(Ks, "s", <<>>, << <<"k", Lit(1)>> >>),
     Delete(Ks, "s", <<>>, << <<"c", Lit(1)>> >>),
     Delete(None, "w", <<>>, << <<"k", Lit(1)>> >>)}
    \cup {InsertT(Lit(1), Lit(1), Lit(c1), Lit(c2), Lit(MaxVal)) : c1, c2 \in Vals}
    \cup {Select(Ks, "t", All, TKey(Lit(1), Lit(1), Lit(c1), Lit(c2)), None) :
             c1, c2 \in Vals}
    \cup {Delete(Ks, "t", <<>>, TKey(Lit(1), Lit(1), Lit(c1), Lit(c2))) :
             c1, c2 \in Vals}
    \cup {Delete(Ks, "s", <<>>, << <<"k", Lit(1)>>, <<"c", Lit(c)>> >>) : c \in Vals}
    \cup {Delete(Ks, "n", <<>>, << <<"k", Lit(k)>> >>) : k \in Vals}

InsertSBinds == InsertS(Blankslate, Blankslate, Lit(MaxVal))

PreparePool == {SelectTBinds, InsertSBinds, Use("ks"), SelectUnknownTable}

ExecuteValues == {<<>>} \cup {<<Bind(1), Bind(c)>> : c \in Vals}

Next ==
    \/ \E q \in QueryPool : Query(q, <<>>)
    \/ \E q \in PreparePool, id \in IdPool : Prepare(q, id)
    \/ \E id \in ExecuteIds, values \in ExecuteValues : Execute(id, values)

Spec == Init /\ [][Next]_vars

(***************************************************************************)
(* Properties.                                                             *)
(***************************************************************************)
\* A request was answered in this step.
Answered == steps' = steps + 1

EngineUnchanged == UNCHANGED <<use_keyspace, data, schema, query_cache>>

\* Every stored row with its place.
AllRows(d) ==
    {[keyspace |-> ks, table |-> tb, partition |-> pk, clustering |-> ck,
      row |-> d[ks][tb][pk][ck]] :
        <<ks, tb, pk, ck>> \in
            UNION {UNION {UNION {{<<ks, tb, pk, ck>> : ck \in DOMAIN d[ks][tb][pk]} :
                                    pk \in DOMAIN d[ks][tb]} :
                             tb \in DOMAIN d[ks]} :
                      ks \in DOMAIN d}}

\* The keyspace a statement addresses in the current session.
KeyspaceOf(q) == IF q.keyspace = None THEN use_keyspace ELSE q.keyspace

RestrictedColumns(q) == {q.where[i][1] : i \in 1..Len(q.where)}

\* The rows of the addressed table whose columns equal the WHERE literals.
Addressed(d, q) ==
    {r \in AllRows(d) :
        /\ Some(r.keyspace) = KeyspaceOf(q)
        /\ r.table = q.table
        /\ \A i \in 1..Len(q.where) :
              /\ q.where[i][1] \in DOMAIN r.row
              /\ r.row[q.where[i][1]] = CqlInt(q.where[i][2].lit.n)}

TableOf(q) ==
    IF KeyspaceOf(q) = None THEN None
    ELSE get_table(schema, KeyspaceOf(q).v, q.table)

IsRowDelete(req) ==
    /\ req.op = "Query" /\ req.query.tag = "Delete" /\ req.query.columns = <<>>
    /\ TableOf(req.query) # None

OnFullKey(q) ==
    RestrictedColumns(q) =
        Range(PrimaryKeyNames(TableOf(q).partition_key))
            \cup Range(PrimaryKeyNames(TableOf(q).clustering_key))

OnPartitionKey(q) ==
    RestrictedColumns(q) = Range(PrimaryKeyNames(TableOf(q).partition_key))

\* C7: a QUERY, PREPARE or EXECUTE request that is answered with an error
\* leaves the rows, the catalog, the prepared statements and the current
\* keyspace as they were.
C7_ErrorLeavesEngineUnchanged ==
    [][(Answered /\ request'.op \in {"Query", "Prepare", "Execute"}
                 /\ response'.tag = "Err") => EngineUnchanged]_vars

C7_Witness ==
    /\ request.op \in {"Query", "Prepare", "Execute"}
    /\ response.tag = "Err"
    /\ "ks" \in DOMAIN data

\* C8: a DELETE that names the full primary key of an existing row succeeds,
\* removes that one row and leaves every other row as it was.
C8_DeleteRemovesExactlyTheRow ==
    [][(Answered /\ IsRowDelete(request') /\ OnFullKey(request'.query)
                 /\ Addressed(data, request'.query) # {})
       => /\ response' = Ok(Void)
          /\ Cardinality(Addressed(data, request'.query)) = 1
          /\ AllRows(data') = AllRows(data) \ Addressed(data, request'.query)]_vars

RowsOfT(k1, k2) ==
    {r \in AllRows(data) :
        r.table = "t" /\ r.partition = KeyComposite(<<CqlInt(k1), CqlInt(k2)>>)}

C8_Witness ==
    /\ steps = 1
    /\ IsRowDelete(request) /\ request.query.table = "t"
    /\ OnFullKey(request.query)
    /\ response = Ok(Void)
    /\ Cardinality(RowsOfT(1, 1)) = MaxVal * MaxVal - 2
    /\ RowsOfT(2, 1) # {}

\* C9: a DELETE that names exactly the partition key columns removes every
\* row of that partition and leaves every other row as it was.
C9_DeleteRemovesThePartition ==
    [][(Answered /\ IsRowDelete(request') /\ OnPartitionKey(request'.query))
       => AllRows(data') = AllRows(data) \ Addressed(data, request'.query)]_vars

C9_Witness ==
    /\ steps = 1
    /\ IsRowDelete(request) /\ request.query.table = "t"
    /\ OnPartitionKey(request.query)
    /\ response = Ok(Void)
    /\ RowsOfT(1, 1) = {}
    /\ RowsOfT(2, 1) # {}

IsInsertT(req) ==
    /\ req.op = "Query" /\ req.query.tag = "Insert"
    /\ req.query.keyspace = Ks /\ req.query.table = "t"

IsSelectTOnFullKey(req) ==
    /\ req.op = "Query" /\ req.query.tag = "Select"
    /\ req.query.keyspace = Ks /\ req.query.table = "t"
    /\ req.query.columns = All
    /\ RestrictedColumns(req.query) = {"k1", "k2", "c1", "c2"}

\* The value an INSERT gives to a column.
InsertedValue(q, name) ==
    CqlInt(q.values[CHOOSE i \in 1..Len(q.columns) : q.columns[i] = name].lit.n)

WhereValue(q, name) ==
    CqlInt(q.where[CHOOSE i \in 1..Len(q.where) : q.where[i][1] = name][2].lit.n)

\* C10: on the table with partition key (k1, k2) and clustering key (c1, c2),
\* a SELECT with equalities on all four key columns that follows an INSERT of
\* the row with that key returns exactly one row, equal to the inserted one.
C10_SelectOnFullKeyReturnsTheInsertedRow ==
    [][(/\ Answered
        /\ IsInsertT(request) /\ response = Ok(Void)
        /\ IsSelectTOnFullKey(request')
        /\ \A name \in {"k1", "k2", "c1", "c2"} :
              WhereValue(request'.query, name) = InsertedValue(request.query, name))
       => /\ response'.tag = "Ok"
          /\ response'.value.kind = "Rows"
          /\ Len(response'.value.rows) = 1
          /\ \A i \in 1..Len(response'.value.col_specs) :
                response'.value.rows[1][i] =
                    InsertedValue(request.query, response'.value.col_specs[i])]_vars

C10_Witness ==
    /\ steps = 2
    /\ IsSelectTOnFullKey(request)
    /\ response.tag = "Ok"
    /\ Len(response.value.rows) = 1
    /\ response.value.rows[1][5] = CqlInt(MaxVal)
    /\ Cardinality(RowsOfT(1, 1)) >= 2

\* The statement a PREPARE returned the id for, if any did.
ReturnedFor(id) == {r.query : r \in {x \in returned : x.id = id}}

\* C3: an EXECUTE with an id that PREPARE returned and bind values v gives the
\* response and the engine state that a QUERY with the prepared statement and
\* the values v gives in the same state.
C3_ExecuteIsQuery ==
    [][(Answered /\ request'.op = "Execute" /\ ReturnedFor(request'.id) # {})
       => \A q \in ReturnedFor(request'.id) :
             LET r == Session_process(Session, q, Parameters(request'.values))
             IN /\ response' = r.res
                /\ Session' = r.session]_vars

C3_Witness ==
    /\ request.op = "Execute"
    /\ ReturnedFor(request.id) = {SelectTBinds}
    /\ request.values # <<>>
    /\ response.tag = "Ok"
    /\ Len(response.value.rows) = 1

\* C4 as stated: an EXECUTE with an id that no PREPARE returned is answered
\* with the unprepared error carrying the supplied id, and changes nothing.
C4_NeverReturnedIsUnprepared ==
    [][(Answered /\ request'.op = "Execute" /\ ReturnedFor(request'.id) = {})
       => /\ response' = Unprepared(request'.id)
          /\ EngineUnchanged]_vars

\* C4, amended: an EXECUTE with an id that no PREPARE returned changes
\* nothing; an id of 16 bytes is answered with the unprepared error carrying
\* exactly the supplied bytes, an id of any other length with an invalid
\* error.
C4_NeverReturnedIsUnpreparedOrInvalid ==
    [][(Answered /\ request'.op = "Execute" /\ ReturnedFor(request'.id) = {})
       => /\ EngineUnchanged
          /\ response'.tag = "Err"
          /\ IF Len(request'.id) = 16
             THEN /\ response'.error.kind = "Unprepared"
                  /\ response'.error.statement_id = request'.id
             ELSE response'.error.kind = "Invalid"]_vars

C4_Witness ==
    /\ request.op = "Execute"
    /\ request.id = UnknownId
    /\ response.tag = "Err"
    /\ response.error.kind = "Unprepared"
    /\ returned # {}

(***************************************************************************)
(* Batches: BATCH requests over a pool of statements, some of which fail.  *)
(***************************************************************************)
BatchQuery(q) == [kind |-> "Query", query |-> q, values |-> <<>>]

BatchPrepared(id, values) == [kind |-> "Prepared", id |-> id, values |-> values]

BatchStatements ==
    {BatchQuery(InsertT(Lit(1), Lit(1), Lit(MaxVal), Lit(MaxVal), Lit(MaxVal))),
     BatchQuery(InsertS(Lit(2), Lit(2), Lit(MaxVal))),
     BatchQuery(Delete(Ks, "t", <<>>, TPartition(Lit(1), Lit(1)))),
     BatchQuery(Insert(Ks, "t", <<"k1", "c1", "c2", "v">>,
                       <<Lit(1), Lit(1), Lit(1), Lit(1)>>)),
     BatchQuery(Delete(None, "n", <<>>, << <<"k", Lit(1)>> >>)),
     BatchPrepared(to_be_bytes(1), <<Bind(1), Bind(MaxVal)>>)}

RECURSIVE Batches(_)
Batches(n) ==
    IF n = 0 THEN {<<>>}
    ELSE {<<s>> \o b : s \in BatchStatements, b \in Batches(n - 1)}

BatchPool == UNION {Batches(n) : n \in 1..MaxBatch}

NextBatch ==
    \/ \E b \in BatchPool : Batch(b)
    \/ Prepare(InsertSBinds, 1)
    \/ Query(Use("ks"), <<>>)

SpecBatch == Init /\ [][NextBatch]_vars

\* What the claim says of a batch: the statements one at a time in list
\* order, each as the request it would be on its own; the first error is the
\* answer and the session stays as the statements before it left it.
RECURSIVE OneAtATime(_, _)
OneAtATime(session, statements) ==
    IF statements = <<>> THEN [res |-> Ok(Void), session |-> session]
    ELSE LET st == Head(statements)
             r == IF st.kind = "Query"
                  THEN Session_process(session, st.query, Parameters(st.values))
                  ELSE Session_execute(session, st.id, Parameters(st.values))
         IN IF r.res.tag = "Err" THEN [res |-> r.res, session |-> session]
            ELSE OneAtATime(r.session, Tail(statements))

\* C1: a BATCH applies its statements one at a time in list order; the first
\* failing statement's error is the response, the statements before it stay
\* applied and it and the statements after it have no effect; if none fails
\* all are applied and the result is Void.
C1_BatchStopsAtFirstError ==
    [][(Answered /\ request'.op = "Batch")
       => LET r == OneAtATime(Session, request'.statements)
          IN /\ response' = r.res
             /\ Session' = r.session]_vars

C1_Witness ==
    /\ request.op = "Batch"
    /\ Len(request.statements) >= 2
    /\ request.statements[1].kind = "Query"
    /\ request.statements[1].query.tag = "Insert"
    /\ response.tag = "Err"
    /\ \E r \in RowsOfT(1, 1) : r.row["c1"] = CqlInt(MaxVal) /\ r.row["c2"] = CqlInt(MaxVal)

(***************************************************************************)
(* Connections (kassandra-node/src/main.rs).  Server::serve spawns one     *)
(* task per connection; Server::client reads a frame, handles it and sends *)
(* the response before it reads the next; Server::request locks the shared *)
(* session for the whole call.  A batch is run statement by statement      *)
(* while the lock is held.                                                 *)
(***************************************************************************)
Connections == {"a", "b"}

\* The dispatch of Server::request on the locked session.
Server_request(session, req) ==
    CASE req.op = "Query" ->
           Session_process(session, req.query, Parameters(req.values))
      [] req.op = "Prepare" -> Session_prepare_with_id(session, req.query, req.id)
      [] req.op = "Execute" ->
           Session_execute(session, req.id, Parameters(req.values))
      [] req.op = "Batch" -> Session_process_batch(session, req.statements)

\* A lock that anybody can take at any time.
Mutex_lock_unguarded(lock) == TRUE

\* Mutex::lock returns once nobody holds the mutex.
Mutex_lock(lock) == lock = "free"

ConcIdle(s) ==
    [lock |-> "free",
     pc |-> [c \in Connections |-> "idle"],
     current |-> [c \in Connections |-> NoRequest],
     todo |-> [c \in Connections |-> <<>>],
     result |-> [c \in Connections |-> None],
     expected |-> [c \in Connections |-> None],
     serial |-> s,
     count |-> 0]

InitConc ==
    /\ \E s \in SeededSessions : InitSession(s) /\ conc = ConcIdle(s)
    /\ paging = NoPaging

ConcPool ==
    {[op |-> "Query", query |-> Select(Ks, "t", All, TPartition(Lit(1), Lit(1)), None),
      values |-> <<>>],
     [op |-> "Prepare", query |-> SelectTBinds],
     [op |-> "Batch",
      statements |-> <<BatchQuery(InsertT(Lit(1), Lit(1), Lit(MaxVal), Lit(MaxVal),
                                          Lit(MaxVal))),
                       BatchQuery(Delete(Ks, "t", <<>>, TPartition(Lit(2), Lit(1))))>>],
     [op |-> "Batch",
      statements |-> <<BatchQuery(Delete(Ks, "t", <<>>, TPartition(Lit(1), Lit(1)))),
                       BatchQuery(InsertT(Lit(2), Lit(1), Lit(1), Lit(1),
                                          Lit(MaxVal)))>>]}
    \cup {[op |-> "Execute", id |-> to_be_bytes(i), values |-> <<Bind(1), Bind(1)>>] :
             i \in 1..2}

\* Server::client: the next frame of connection c is read.
Receive(c, req) ==
    /\ conc.count < MaxConcSteps
    /\ conc.pc[c] = "idle"
    /\ conc' = [conc EXCEPT
                  !.pc[c] = "waiting",
                  !.count = @ + 1,
                  !.current[c] =
                      IF req.op = "Execute"
                      THEN [op |-> "Execute", id |-> req.id, values |-> req.values,
                            conn |-> c, known |-> ReturnedFor(req.id) # {}]
                      ELSE req]
    /\ UNCHANGED <<use_keyspace, data, schema, query_cache, request, response,
                   steps, returned, paging>>

\* self.kassandra.lock().unwrap(); a PREPARE draws its id here.
Lock(c, id) ==
    /\ conc.pc[c] = "waiting"
    /\ Mutex_lock(conc.lock)
    /\ id \notin DOMAIN query_cache
    /\ \E req \in {IF conc.current[c].op = "Prepare"
                   THEN [op |-> "Prepare", query |-> conc.current[c].query, id |-> id]
                   ELSE conc.current[c]} :
       \E whole \in {Server_request(conc.serial, req)} :
          conc' = [conc EXCEPT
                     !.lock = c,
                     !.pc[c] = "running",
                     !.current[c] = req,
                     !.todo[c] = IF req.op = "Batch" THEN req.statements ELSE <<>>,
                     !.expected[c] = whole.res,
                     !.serial = whole.session]
    /\ UNCHANGED <<use_keyspace, data, schema, query_cache, request, response,
                   steps, returned, paging>>

\* The call on the locked session: a whole QUERY, PREPARE or EXECUTE, or
\* the next statement of a BATCH.
Run(c) ==
    /\ conc.pc[c] = "running"
    /\ \E r \in {CASE conc.current[c].op # "Batch" ->
                        Server_request(Session, conc.current[c])
                   [] conc.todo[c] = <<>> -> [res |-> Ok(Void), session |-> Session]
                   [] OTHER ->
                        Session_process_batch_statement(Session, Head(conc.todo[c]))} :
       \E more \in {conc.current[c].op = "Batch" /\ conc.todo[c] # <<>>
                    /\ r.res.tag = "Ok"} :
          /\ SessionBecomes(r.session)
          /\ conc' = [conc EXCEPT
                        !.pc[c] = IF more THEN "running" ELSE "ran",
                        !.todo[c] = IF more THEN Tail(@) ELSE <<>>,
                        !.result[c] = r.res]
    /\ UNCHANGED <<request, response, steps, returned, paging>>

\* The guard is dropped and the response is sent.
Unlock(c) ==
    /\ conc.pc[c] = "ran"
    /\ request' = conc.current[c]
    /\ response' = conc.result[c]
    /\ steps' = steps + 1
    /\ returned' = IF conc.current[c].op = "Prepare" /\ conc.result[c].tag = "Ok"
                   THEN returned \cup {[id |-> conc.result[c].value.id,
                                        query |-> conc.current[c].query,
                                        conn |-> c]}
                   ELSE returned
    /\ conc' = [conc EXCEPT
                  !.lock = IF @ = c THEN "free" ELSE @,
                  !.pc[c] = "idle",
                  !.current[c] = NoRequest,
                  !.result[c] = None,
                  !.expected[c] = None]
    /\ UNCHANGED <<use_keyspace, data, schema, query_cache, paging>>

NextConc ==
    \/ \E c \in Connections, req \in ConcPool : Receive(c, req)
    \/ \E c \in Connections, id \in 1..MaxConcSteps : Lock(c, id)
    \/ \E c \in Connections : Run(c)
    \/ \E c \in Connections : Unlock(c)

SpecConc == InitConc /\ [][NextConc]_vars

InEngine(c) == conc.pc[c] \in {"running", "ran"}

\* C2: at most one request is executing against the engine at any time, and
\* the responses and the engine state are those of the whole requests run
\* one after the other in the order in which they took the lock (each
\* connection has one request at a time, so its own order is kept).
C2_OneRequestAtATime ==
    /\ \A c1, c2 \in Connections : (InEngine(c1) /\ InEngine(c2)) => c1 = c2
    /\ \A c \in Connections :
          conc.pc[c] = "ran" =>
              /\ conc.result[c] = conc.expected[c]
              /\ Session = conc.serial
    /\ (\A c \in Connections : ~InEngine(c)) => Session = conc.serial

\* Both connections have a request, one runs a batch half way and the other
\* waits for the lock.
C2_Witness ==
    /\ conc.pc["a"] = "running"
    /\ conc.current["a"].op = "Batch"
    /\ Len(conc.todo["a"]) = 1
    /\ conc.pc["b"] = "waiting"
    /\ steps >= 1

\* C5: once a PREPARE has returned an id, an EXECUTE with that id that is
\* sent afterwards, on whichever connection and after whatever other
\* requests, is not answered unprepared.
C5_PreparedStaysPrepared ==
    [][(Answered /\ request'.op = "Execute" /\ request'.known)
       => ~(response'.tag = "Err" /\ response'.error.kind = "Unprepared")]_vars

C5_Witness ==
    /\ request.op = "Execute"
    /\ request.known
    /\ \E r \in returned : r.id = request.id /\ r.conn # request.conn
    /\ response.tag = "Ok"

(***************************************************************************)
(* Paging: a client asks for the first page of a SELECT and then re-issues *)
(* the query with each paging state it is given.                           *)
(***************************************************************************)
\* QueryParameters::parse of a request with a page size and, when token is
\* not None, a paging state ([bytes] as the client got it).
QueryParameters_parse(page_size, token) ==
    Only({
      IF state.tag # "Ok"
      THEN Err(Error_new("ProtocolError", "Could not parse query parameters"))
      ELSE Ok([data |-> <<>>, result_page_size |-> Some(page_size),
               paging_state |-> state.value])
      : state \in {IF token = None THEN Ok(None) ELSE opt_paging_state(token.v)} })

\* Request::Query with paging parameters
Query_paged(session, q, page_size, token) ==
    Only({
      IF parameters.tag # "Ok" THEN [res |-> parameters, session |-> session]
      ELSE Session_process(session, q, parameters.value)
      : parameters \in {QueryParameters_parse(page_size, token)} })

Limits == {None} \cup {Some(n) : n \in 1..(MaxVal + 1)}

PagingPool ==
    {Select(Ks, "s", All, << <<"k", Lit(k)>> >>, l) : k \in {1, 2}, l \in Limits}
    \cup {Select(Ks, "t", All, TPartition(Lit(k), Lit(1)), l) : k \in {1, 2}, l \in Limits}
    \cup {Select(Ks, tb, All, <<>>, l) : tb \in {"s", "t", "n"}, l \in Limits}

AfterPage(q, p, pages, full, res) ==
    [pc |-> IF res.tag # "Ok" THEN "failed"
            ELSE IF res.value.paging_state = None THEN "done" ELSE "more",
     query |-> q,
     page_size |-> p,
     token |-> IF res.tag = "Ok" THEN res.value.paging_state ELSE None,
     pages |-> IF res.tag = "Ok" THEN pages \o res.value.rows ELSE pages,
     full |-> full]

\* The first page of q with page size p; full is the unpaginated result.
FirstPage(q, p) ==
    /\ paging.pc = "idle"
    /\ \E whole \in {Session_process(Session, q, Parameters(<<>>))} :
          /\ whole.res.tag = "Ok"
          /\ \E r \in {Query_paged(Session, q, p, None)} :
                /\ Answer([op |-> "Query", query |-> q, values |-> <<>>,
                           result_page_size |-> p, paging_state |-> None], r)
                /\ paging' = AfterPage(q, p, <<>>, whole.res.value.rows, r.res)
    /\ UNCHANGED <<returned, conc>>

\* The same query with the paging state of the last page.
NextPage ==
    /\ paging.pc = "more"
    /\ \E r \in {Query_paged(Session, paging.query, paging.page_size, paging.token)} :
          /\ Answer([op |-> "Query", query |-> paging.query, values |-> <<>>,
                     result_page_size |-> paging.page_size,
                     paging_state |-> paging.token], r)
          /\ paging' = AfterPage(paging.query, paging.page_size, paging.pages,
                                 paging.full, r.res)
    /\ UNCHANGED <<returned, conc>>

NextPaging ==
    \/ \E q \in PagingPool, p \in 1..MaxPageSize : FirstPage(q, p)
    \/ NextPage

SpecPaging == Init /\ [][NextPaging]_vars

\* C6: following the paging states from the first page until a page carries
\* none yields pages whose concatenation is the unpaginated result.
C6_PagesConcatenateToTheResult ==
    paging.pc \in {"done", "failed"} =>
        (paging.pc = "done" /\ paging.pages = paging.full)

(***************************************************************************)
(* Rows: QUERY requests that read and write the rows of ks.t, ks.s, ks.n   *)
(* and ks.r, with literal and with bound values.                           *)
(***************************************************************************)
\* CREATE TABLE ks.r (k int, a int, b int, PRIMARY KEY (k))
CreateR(ks, ine) ==
    CreateTable(ks, "r", ine, IntColumns(<<"k", "a", "b">>), <<"k">>, <<>>)

\* The sessions a run over rows starts from: ks.r holds a row with both
\* regular columns and a row with a alone.
RowSessions ==
    {ProcessAll(s, <<CreateR(Ks, FALSE),
                     Insert(Ks, "r", <<"k", "a", "b">>, <<Lit(1), Lit(1), Lit(1)>>),
                     Insert(Ks, "r", <<"k", "a">>, <<Lit(2), Lit(1)>>)>>) :
        s \in SeededSessions}

InitRows ==
    /\ \E s \in RowSessions : InitSession(s)
    /\ conc = NoConc
    /\ paging = NoPaging

Statement(q, values) == [query |-> q, values |-> values]

\* SELECTs with the partition key and a prefix of the clustering columns.
PrefixSelects ==
    {Statement(Select(Ks, "t", All, TPartition(Lit(k1), Lit(1)), None), <<>>) :
        k1 \in Vals}
    \cup {Statement(Select(Ks, "t", All,
                           TPartition(Lit(1), Lit(1)) \o << <<"c1", Lit(c1)>> >>, None),
                    <<>>) : c1 \in Vals}
    \cup {Statement(Select(Ks, "t", All, TKey(Lit(1), Lit(1), Lit(1), Lit(c2)), None),
                    <<>>) : c2 \in Vals}
    \cup {Statement(Select(Ks, "s", All, << <<"k", Lit(1)>> >>, None), <<>>)}
    \cup {Statement(Select(Ks, "s", All, << <<"k", Lit(1)>>, <<"c", Lit(c)>> >>, None),
                    <<>>) : c \in Vals}
    \cup {Statement(Select(Ks, "n", All, << <<"k", Lit(1)>> >>, None), <<>>)}

\* The position of a column in the column specs of a result.
ColumnIndex(cols, name) == CHOOSE i \in 1..Len(cols) : cols[i] = name

\* A stored row as a result row over the given columns.
Shown(row, cols) ==
    [i \in 1..Len(cols) |-> IF cols[i] \in DOMAIN row THEN row[cols[i]] ELSE None]

\* The integers a result row has in the named columns.
IntsOf(result, i, names) ==
    [j \in 1..Len(names) |->
        result.rows[i][ColumnIndex(result.col_specs, names[j])].n]

\* Lexicographic order of integer sequences of one length.
RECURSIVE IntsLess(_, _)
IntsLess(a, b) ==
    IF a = <<>> THEN FALSE
    ELSE IF Head(a) = Head(b) THEN IntsLess(Tail(a), Tail(b))
    ELSE Head(a) < Head(b)

\* A SELECT * with equalities on the partition key columns and on the first
\* j clustering columns of an existing table, for some j.
IsPrefixSelect(req) ==
    /\ req.op = "Query" /\ req.query.tag = "Select" /\ req.query.columns = All
    /\ req.query.where # <<>>
    /\ TableOf(req.query) # None
    /\ \A i \in 1..Len(req.query.where) :
          /\ req.query.where[i][2].tag = "Literal"
          /\ req.query.where[i][2].lit.tag = "Number"
    /\ \E j \in 0..PrimaryKeyCount(TableOf(req.query).clustering_key) :
          RestrictedColumns(req.query) =
              Range(PrimaryKeyNames(TableOf(req.query).partition_key))
              \cup {PrimaryKeyNames(TableOf(req.query).clustering_key)[i] : i \in 1..j}

\* The rows of a result in ascending order of the table's clustering columns.
AscendingClustering(result, tschema) ==
    \A i \in 1..(Len(result.rows) - 1) :
        IntsLess(IntsOf(result, i, PrimaryKeyNames(tschema.clustering_key)),
                 IntsOf(result, i + 1, PrimaryKeyNames(tschema.clustering_key)))

\* C11: a SELECT with the full partition key and equalities on the first j
\* clustering columns returns exactly the rows of the partition whose first
\* j clustering components equal the given values, in ascending clustering
\* order (every row of the partition when j = 0).
C11_PrefixSelectReturnsTheMatchingRows ==
    [][(Answered /\ IsPrefixSelect(request'))
       => /\ response'.tag = "Ok"
          /\ response'.value.kind = "Rows"
          /\ Len(response'.value.rows) = Cardinality(Addressed(data, request'.query))
          /\ Range(response'.value.rows) =
                {Shown(r.row, response'.value.col_specs) :
                    r \in Addressed(data, request'.query)}
          /\ AscendingClustering(response'.value, TableOf(request'.query))]_vars

\* SELECTs without WHERE.
Scans ==
    {Statement(Select(Ks, tb, All, <<>>, None), <<>>) : tb \in {"t", "s", "n", "r"}}

IsScan(req) ==
    /\ req.op = "Query" /\ req.query.tag = "Select" /\ req.query.columns = All
    /\ req.query.where = <<>>
    /\ TableOf(req.query) # None

\* The rows of a result in ascending order of the partition key columns
\* and, for equal partition keys, of the clustering columns.
AscendingPrimaryKey(result, tschema) ==
    \A i \in 1..(Len(result.rows) - 1) :
        IntsLess(IntsOf(result, i, PrimaryKeyNames(tschema.partition_key)
                                   \o PrimaryKeyNames(tschema.clustering_key)),
                 IntsOf(result, i + 1, PrimaryKeyNames(tschema.partition_key)
                                       \o PrimaryKeyNames(tschema.clustering_key)))

\* C12: a SELECT without WHERE returns all rows of the table, ordered by
\* ascending partition key and within a partition by ascending clustering
\* key.
C12_ScanIsInKeyOrder ==
    [][(Answered /\ IsScan(request'))
       => /\ response'.tag = "Ok"
          /\ response'.value.kind = "Rows"
          /\ Len(response'.value.rows) = Cardinality(Addressed(data, request'.query))
          /\ Range(response'.value.rows) =
                {Shown(r.row, response'.value.col_specs) :
                    r \in Addressed(data, request'.query)}
          /\ AscendingPrimaryKey(response'.value, TableOf(request'.query))]_vars

C12_Witness ==
    /\ IsScan(request) /\ request.query.table = "t"
    /\ response.tag = "Ok"
    /\ Len(response.value.rows) >= 3
    /\ IntsOf(response.value, 1, <<"k1">>) = <<1>>
    /\ IntsOf(response.value, 2, <<"k1", "c2">>) = <<1, 2>>
    /\ IntsOf(response.value, Len(response.value.rows), <<"k1">>) = <<2>>

\* INSERT INTO ks.r (k, a, b) VALUES (k, ?, ?)
InsertRBinds(k) == Insert(Ks, "r", <<"k", "a", "b">>, <<Lit(k), Blankslate, Blankslate>>)

\* INSERTs on keys that exist and on keys that do not, naming all or some
\* of the regular columns, with literals and with bind values.
Upserts ==
    {Statement(Insert(Ks, "r", <<"k", name>>, <<Lit(k), Lit(MaxVal)>>), <<>>) :
        k \in 1..2, name \in {"a", "b"}}
    \cup {Statement(InsertRBinds(1), <<Bind(MaxVal), Bind(MaxVal)>>),
          Statement(InsertT(Lit(1), Lit(1), Lit(1), Lit(1), Lit(MaxVal)), <<>>),
          Statement(Insert(Ks, "t", <<"k1", "k2", "c1", "c2">>,
                           <<Lit(1), Lit(1), Lit(1), Lit(1)>>), <<>>)}

\* The number of bind markers among the first i values of an INSERT.
Markers(q, i) == Cardinality({j \in 1..i : q.values[j].tag = "Blankslate"})

\* What an INSERT request gives the i-th column it names: Some(value), or
\* the null or not-set of a bind value.
Given(req, i) ==
    IF req.query.values[i].tag = "Literal"
    THEN Some(CqlInt(req.query.values[i].lit.n))
    ELSE IF req.values[Markers(req.query, i)].tag \in {"Null", "NotSet"}
    THEN [tag |-> req.values[Markers(req.query, i)].tag]
    ELSE Some(CqlInt(CHOOSE n \in 0..(MaxVal + 1) :
                        Bind(n) = req.values[Markers(req.query, i)]))

\* An INSERT into an existing table with one value or bind marker for each
\* named column and one bind value for each marker.
IsInsert(req) ==
    /\ req.op = "Query" /\ req.query.tag = "Insert"
    /\ TableOf(req.query) # None
    /\ Len(req.query.values) = Len(req.query.columns)
    /\ Markers(req.query, Len(req.query.values)) = Len(req.values)
    /\ \A i \in 1..Len(req.query.values) :
          /\ req.query.columns[i] \in ColumnNames(TableOf(req.query))
          /\ req.query.values[i].tag = "Literal" =>
                req.query.values[i].lit.tag = "Number"

KeyColumns(tschema) ==
    Range(PrimaryKeyNames(tschema.partition_key))
    \cup Range(PrimaryKeyNames(tschema.clustering_key))

\* The columns an INSERT gives a value, and the value of each.
ValuedColumns(req) ==
    {req.query.columns[i] : i \in {j \in 1..Len(req.query.columns) :
                                        Given(req, j).tag = "Some"}}

ValueOf(req, name) ==
    Given(req, CHOOSE i \in 1..Len(req.query.columns) :
                  req.query.columns[i] = name /\ Given(req, i).tag = "Some").v

\* The stored rows of d that have the primary key an INSERT gives.
RowsWithKeyOf(d, req) ==
    {r \in AllRows(d) :
        /\ Some(r.keyspace) = KeyspaceOf(req.query)
        /\ r.table = req.query.table
        /\ \A name \in KeyColumns(TableOf(req.query)) :
              name \in DOMAIN r.row /\ r.row[name] = ValueOf(req, name)}

\* An INSERT that gives every column it names a value, the key columns
\* among them.
IsInsertOfValues(req) ==
    /\ IsInsert(req)
    /\ ValuedColumns(req) = Range(req.query.columns)
    /\ KeyColumns(TableOf(req.query)) \subseteq ValuedColumns(req)

\* The row r with the columns the INSERT gives a value set to that value.
Upserted(r, req) ==
    [r EXCEPT !.row = [name \in DOMAIN r.row \cup ValuedColumns(req) |->
                          IF name \in ValuedColumns(req) THEN ValueOf(req, name)
                          ELSE r.row[name]]]

\* C13: an INSERT on a primary key that already has a row succeeds, sets the
\* columns it names to the values it gives, keeps the other columns of that
\* row and leaves every other row as it was.
C13_InsertOverwritesTheNamedColumns ==
    [][(Answered /\ IsInsertOfValues(request') /\ RowsWithKeyOf(data, request') # {})
       => /\ response' = Ok(Void)
          /\ AllRows(data') =
                (AllRows(data) \ RowsWithKeyOf(data, request'))
                \cup {Upserted(r, request') : r \in RowsWithKeyOf(data, request')}]_vars

\* A row of ks.r with both regular columns got a new a and kept its b.
C13_Witness ==
    /\ IsInsertOfValues(request) /\ request.query.table = "r"
    /\ request.query.columns = <<"k", "a">>
    /\ response = Ok(Void)
    /\ \E r \in AllRows(data) :
          /\ r.table = "r"
          /\ r.row["k"] = CqlInt(1)
          /\ r.row["a"] = CqlInt(MaxVal)
          /\ r.row["b"] = CqlInt(1)

\* INSERTs whose bind values for regular columns are not-set or null, on
\* rows that exist and on a key that has no row.
NotSetInserts ==
    {Statement(InsertRBinds(k), <<a, b>>) :
        k \in 1..3,
        <<a, b>> \in {<<FrameNotSet, Bind(MaxVal)>>, <<Bind(MaxVal), FrameNotSet>>,
                      <<FrameNotSet, FrameNotSet>>, <<FrameNull, FrameNotSet>>}}

\* The regular columns an INSERT names with a bind value that is not-set.
NotSetColumns(req) ==
    {req.query.columns[i] : i \in {j \in 1..Len(req.query.columns) :
                                        Given(req, j).tag = "NotSet"}}
    \ KeyColumns(TableOf(req.query))

\* An INSERT that gives the key columns values and some regular column a
\* bind value that is not-set.
IsInsertWithNotSet(req) ==
    /\ IsInsert(req)
    /\ KeyColumns(TableOf(req.query)) \subseteq ValuedColumns(req)
    /\ NotSetColumns(req) # {}

\* C14: an INSERT whose bind value for a regular column is not-set succeeds
\* and leaves that column of the row as it was: a stored value is kept, and
\* a column without a value, or of a row that did not exist, stays without.
C14_NotSetLeavesTheColumnUntouched ==
    [][(Answered /\ IsInsertWithNotSet(request'))
       => /\ response' = Ok(Void)
          /\ Cardinality(RowsWithKeyOf(data', request')) = 1
          /\ \A name \in NotSetColumns(request') :
                \A after \in RowsWithKeyOf(data', request') :
                   /\ name \in DOMAIN after.row =>
                         \E before \in RowsWithKeyOf(data, request') :
                            /\ name \in DOMAIN before.row
                            /\ before.row[name] = after.row[name]
                   /\ name \notin DOMAIN after.row =>
                         \A before \in RowsWithKeyOf(data, request') :
                            name \notin DOMAIN before.row]_vars

\* In ks.r the row of k = 1 kept its a, the row of k = 2 is still without
\* b, and both were written with the column not-set.
C14_Witness ==
    /\ steps = 2
    /\ IsInsertWithNotSet(request) /\ request.query.table = "r"
    /\ response = Ok(Void)
    /\ request.values = <<FrameNotSet, Bind(MaxVal)>>
    /\ ValueOf(request, "k") = CqlInt(1)
    /\ \E r \in AllRows(data) :
          r.table = "r" /\ r.row["k"] = CqlInt(1)
          /\ r.row["a"] = CqlInt(1) /\ r.row["b"] = CqlInt(MaxVal)
    /\ \E r \in AllRows(data) :
          r.table = "r" /\ r.row["k"] = CqlInt(2)
          /\ r.row["a"] = CqlInt(MaxVal) /\ "b" \notin DOMAIN r.row

\* Statements in which a partition key column is not named, or is named
\* with a bind marker whose value is null or not-set.
MissingKeys ==
    {Statement(Insert(Ks, "t", <<"k1", "c1", "c2", "v">>,
                      <<Lit(1), Lit(1), Lit(1), Lit(MaxVal)>>), <<>>),
     Statement(Insert(Ks, "s", <<"c", "v">>, <<Lit(1), Lit(MaxVal)>>), <<>>),
     Statement(Select(Ks, "s", All, << <<"c", Lit(1)>> >>, None), <<>>),
     Statement(Select(Ks, "t", All, << <<"k1", Lit(1)>>, <<"c1", Lit(1)>> >>, None),
               <<>>),
     Statement(Delete(Ks, "s", <<>>, << <<"c", Lit(1)>> >>), <<>>),
     Statement(Delete(Ks, "t", <<>>, << <<"k2", Lit(1)>> >>), <<>>),
     Statement(Delete(Ks, "r", <<"a">>, << <<"a", Lit(1)>> >>), <<>>)}
    \cup {Statement(Insert(Ks, "n", <<"k", "v">>, <<Blankslate, Lit(MaxVal)>>), <<v>>) :
             v \in {FrameNull, FrameNotSet}}
    \cup {Statement(Select(Ks, "n", All, << <<"k", Blankslate>> >>, None), <<FrameNull>>),
          Statement(Delete(Ks, "n", <<>>, << <<"k", Blankslate>> >>), <<FrameNull>>),
          Statement(Delete(Ks, "r", <<"a">>, << <<"k", Blankslate>> >>), <<FrameNull>>)}

\* The (column, term) pairs of a statement: the VALUES of an INSERT, the
\* WHERE of a SELECT or DELETE.
TermsOf(q) == IF q.tag = "Insert" THEN Zip(q.columns, q.values) ELSE q.where

\* The bind value of the i-th term when it is a bind marker.
BindOf(req, i) ==
    req.values[Cardinality({j \in 1..i : TermsOf(req.query)[j][2].tag = "Blankslate"})]

\* The columns a statement gives a value that is not null: a number, or a
\* bind marker with a value.
ColumnsWithValue(req) ==
    {TermsOf(req.query)[i][1] :
        i \in {j \in 1..Len(TermsOf(req.query)) :
                  \/ TermsOf(req.query)[j][2].tag = "Literal"
                  \/ BindOf(req, j).tag = "Some"}}

\* An INSERT, a SELECT with WHERE or a DELETE on an existing table, with
\* numbers and bind markers for columns of the table and a bind value for
\* each marker.
IsKeyedStatement(req) ==
    /\ req.op = "Query"
    /\ \/ req.query.tag = "Insert" /\ Len(req.query.values) = Len(req.query.columns)
       \/ req.query.tag = "Select" /\ req.query.where # <<>>
       \/ req.query.tag = "Delete"
    /\ TableOf(req.query) # None
    /\ Cardinality({j \in 1..Len(TermsOf(req.query)) :
                       TermsOf(req.query)[j][2].tag = "Blankslate"}) = Len(req.values)
    /\ \A i \in 1..Len(TermsOf(req.query)) :
          /\ TermsOf(req.query)[i][1] \in ColumnNames(TableOf(req.query))
          /\ TermsOf(req.query)[i][2].tag = "Literal" =>
                TermsOf(req.query)[i][2].lit.tag = "Number"

RowDeletes ==
    {Statement(Delete(Ks, "s", <<>>, << <<"k", Lit(1)>>, <<"c", Lit(1)>> >>), <<>>),
     Statement(Delete(Ks, "r", <<>>, << <<"k", Lit(1)>> >>), <<>>)}

RowsPool ==
    PrefixSelects \cup Scans \cup Upserts \cup NotSetInserts \cup MissingKeys
    \cup RowDeletes

NextRows == \E s \in RowsPool : Query(s.query, s.values)

SpecRows == InitRows /\ [][NextRows]_vars

(***************************************************************************)
(* Schema: CREATE KEYSPACE and CREATE TABLE requests, with and without     *)
(* IF NOT EXISTS, on objects that exist and on objects that do not.        *)
(***************************************************************************)
\* CREATE TABLE IF NOT EXISTS ks.t (k int, v int, PRIMARY KEY (k)): the name
\* of ks.t with other columns.
CreateNarrowT == CreateTable(Ks, "t", TRUE, IntColumns(<<"k", "v">>), <<"k">>, <<>>)

SchemaPool ==
    {CreateKeyspace(k, ine) : k \in {"ks", "ks2"}, ine \in BOOLEAN}
    \cup {CreateT(Some(k), ine) : k \in {"ks", "ks2"}, ine \in BOOLEAN}
    \cup {CreateN(Ks, ine) : ine \in BOOLEAN}
    \cup {CreateNarrowT, CreateW, Use("ks")}

\* The sessions a run over the schema starts from: a fresh session, one
\* with the keyspace ks, and one with ks and its tables.
SchemaSessions ==
    {Session_new, ProcessAll(Session_new, <<CreateKeyspace("ks", FALSE)>>), WithSchema}

InitSchema ==
    /\ \E s \in SchemaSessions : InitSession(s)
    /\ conc = NoConc
    /\ paging = NoPaging

NextSchema == \E q \in SchemaPool : Query(q, <<>>)

SpecSchema == InitSchema /\ [][NextSchema]_vars

\* The answer to SELECT * FROM system_schema.<table> in the current state.
SelectSystemSchema(table) ==
    Session_process(Session, Select(Some("system_schema"), table, All, <<>>, None),
                    Parameters(<<>>)).res

\* The texts a result row has in the named columns.
TextsOf(result, i, names) ==
    [j \in 1..Len(names) |->
        result.rows[i][ColumnIndex(result.col_specs, names[j])].s]

\* The rows of a result, each as the texts of the named columns; every row
\* of the result yields a different one.
Listed(res, names) ==
    IF res.tag = "Ok" /\ res.value.kind = "Rows"
          /\ Cardinality({TextsOf(res.value, i, names) : i \in 1..Len(res.value.rows)})
                = Len(res.value.rows)
    THEN {TextsOf(res.value, i, names) : i \in 1..Len(res.value.rows)}
    ELSE {<<"no result">>}

CatalogKeyspaces == {<<ks>> : ks \in DOMAIN schema}

CatalogTables ==
    UNION {{<<ks, tb>> : tb \in DOMAIN schema[ks].tables} : ks \in DOMAIN schema}

CatalogColumns ==
    UNION {UNION {{<<ks, tb, schema[ks].tables[tb].schema.columns[i].name,
                     schema[ks].tables[tb].schema.columns[i].kind>> :
                        i \in 1..Len(schema[ks].tables[tb].schema.columns)} :
                     tb \in DOMAIN schema[ks].tables} :
              ks \in DOMAIN schema}

\* C16: after any sequence of CREATE KEYSPACE and CREATE TABLE statements,
\* the rows SELECT * returns from system_schema.keyspaces, tables and
\* columns are, one for one, the keyspaces, tables and columns of the
\* catalog.
C16_SystemSchemaReflectsTheCatalog ==
    /\ Listed(SelectSystemSchema("keyspaces"), <<"keyspace_name">>) = CatalogKeyspaces
    /\ Listed(SelectSystemSchema("tables"), <<"keyspace_name", "table_name">>)
          = CatalogTables
    /\ Listed(SelectSystemSchema("columns"),
              <<"keyspace_name", "table_name", "column_name", "kind">>)
          = CatalogColumns

\* A table was created in a keyspace that the run created before it.
C16_Witness ==
    /\ steps = 2
    /\ request.query.tag = "CreateTable"
    /\ response.tag = "Ok"
    /\ <<"ks2", "t">> \in CatalogTables
    /\ <<"ks2", "t", "c1", "clustering">> \in
          Listed(SelectSystemSchema("columns"),
                 <<"keyspace_name", "table_name", "column_name", "kind">>)

\* The keyspace a CREATE TABLE addresses exists.
InExistingKeyspace(q) ==
    KeyspaceOf(q) # None /\ KeyspaceOf(q).v \in DOMAIN schema

\* A CREATE KEYSPACE IF NOT EXISTS, or a CREATE TABLE IF NOT EXISTS in an
\* existing keyspace.
IsCreateIfNotExists(req) ==
    /\ req.op = "Query"
    /\ req.query.tag \in {"CreateKeyspace", "CreateTable"}
    /\ req.query.ignore_existence
    /\ req.query.tag = "CreateTable" => InExistingKeyspace(req.query)

\* C17: a CREATE KEYSPACE IF NOT EXISTS or CREATE TABLE IF NOT EXISTS that
\* is executed a second time right after the first succeeds both times, and
\* the second execution leaves the catalog and the stored rows, those of
\* system_schema among them, as the first left them.
C17_CreateIfNotExistsTwice ==
    [][(Answered /\ IsCreateIfNotExists(request')
                 /\ request.op = "Query" /\ request.query = request'.query)
       => /\ response.tag = "Ok"
          /\ response'.tag = "Ok"
          /\ schema' = schema
          /\ AllRows(data') = AllRows(data)]_vars

\* CREATE TABLE IF NOT EXISTS ks.t with two columns was answered at the
\* second step and ks.t has these two columns: the run began without ks.t.
C17_Witness ==
    /\ steps = 2
    /\ request.op = "Query" /\ request.query = CreateNarrowT
    /\ response.tag = "Ok"
    /\ Len(schema["ks"].tables["t"].schema.columns) = 2
    /\ <<"ks", "t", "v", "regular">> \in
          Listed(SelectSystemSchema("columns"),
                 <<"keyspace_name", "table_name", "column_name", "kind">>)

\* A CREATE KEYSPACE or CREATE TABLE without IF NOT EXISTS that names a
\* keyspace or table of the catalog.
IsCreateOfExisting(req) ==
    /\ req.op = "Query"
    /\ req.query.tag \in {"CreateKeyspace", "CreateTable"}
    /\ ~req.query.ignore_existence
    /\ req.query.tag = "CreateKeyspace" => req.query.keyspace \in DOMAIN schema
    /\ req.query.tag = "CreateTable" =>
          /\ InExistingKeyspace(req.query)
          /\ req.query.table \in DOMAIN schema[KeyspaceOf(req.query).v].tables

\* C18: a CREATE KEYSPACE or CREATE TABLE without IF NOT EXISTS that names
\* an object of the catalog fails with already-exists carrying the keyspace
\* name (and the table name), and leaves the catalog and the stored rows as
\* they were.
C18_CreateOfExistingIsAlreadyExists ==
    [][(Answered /\ IsCreateOfExisting(request'))
       => /\ response'.tag = "Err"
          /\ response'.error.kind = "AlreadyExists"
          /\ response'.error.keyspace =
                IF request'.query.tag = "CreateKeyspace" THEN request'.query.keyspace
                ELSE KeyspaceOf(request'.query).v
          /\ response'.error.table =
                IF request'.query.tag = "CreateKeyspace" THEN ""
                ELSE request'.query.table
          /\ schema' = schema
          /\ AllRows(data') = AllRows(data)]_vars

\* CREATE TABLE ks.t was refused at the second step of a run that began
\* with the keyspace ks and no table.
C18_Witness ==
    /\ steps = 2
    /\ request.op = "Query" /\ request.query = CreateT(Ks, FALSE)
    /\ response.tag = "Err"
    /\ response.error.kind = "AlreadyExists"
    /\ response.error.table = "t"
    /\ "n" \notin DOMAIN schema["ks"].tables

(***************************************************************************)
(* The current keyspace: connections that send USE and statements with and *)
(* without a keyspace.                                                     *)
(***************************************************************************)
UsePool ==
    {[op |-> "Query", query |-> q, values |-> <<>>] :
        q \in {Use("ks"), Use("ks2"),
               Insert(None, "n", <<"k", "v">>, <<Lit(1), Lit(MaxVal)>>),
               Select(None, "n", All, << <<"k", Lit(1)>> >>, None),
               Select(Ks, "n", All, << <<"k", Lit(1)>> >>, None)}}

NextUse ==
    \/ \E c \in Connections, req \in UsePool : Receive(c, req)
    \/ \E c \in Connections, id \in 1..MaxConcSteps : Lock(c, id)
    \/ \E c \in Connections : Run(c)
    \/ \E c \in Connections : Unlock(c)

SpecUse == InitConc /\ [][NextUse]_vars

\* Connection c's QUERY is run on the session in this step.
RunsQuery(c) ==
    /\ conc.pc[c] = "running" /\ conc'.pc[c] = "ran"
    /\ conc.current[c].op = "Query"

\* The session with another current keyspace.
UsingKeyspace(session, ks) == [session EXCEPT !.use_keyspace = ks]

\* C19: a USE sets the current keyspace and is answered SetKeyspace, and
\* nothing else changes the current keyspace; a statement that names no
\* keyspace, from whichever connection, has the answer and the effect of
\* the statement naming the current keyspace, and a statement that names a
\* keyspace has the same answer and effect under any current keyspace.
C19_UseSetsTheKeyspaceOfUnqualifiedStatements ==
    [][/\ \A c \in Connections :
             RunsQuery(c) =>
                LET q == conc.current[c].query
                    qualified == Session_process(
                                     Session, [q EXCEPT !.keyspace = use_keyspace],
                                     Parameters(<<>>))
                IN /\ q.tag = "Use" =>
                         /\ use_keyspace' = Some(q.keyspace)
                         /\ conc'.result[c] =
                               Ok([kind |-> "SetKeyspace", keyspace_name |-> q.keyspace])
                   /\ q.tag # "Use" => use_keyspace' = use_keyspace
                   /\ (q.tag # "Use" /\ q.keyspace = None /\ use_keyspace # None) =>
                         /\ conc'.result[c] = qualified.res
                         /\ Session' = qualified.session
                   /\ (q.tag # "Use" /\ q.keyspace # None) =>
                         \A ks \in {None, Some("ks"), Some("ks2")} :
                            LET other == Session_process(UsingKeyspace(Session, ks), q,
                                                         Parameters(<<>>))
                            IN /\ conc'.result[c] = other.res
                               /\ UsingKeyspace(Session', ks) = other.session
       /\ use_keyspace' # use_keyspace =>
             \E c \in Connections : RunsQuery(c) /\ conc.current[c].query.tag = "Use"]_vars

\* USE ks has been answered; one connection has run a SELECT that names no
\* keyspace and got the row of ks.n, the other waits with USE ks2.
C19_Witness ==
    /\ request = [op |-> "Query", query |-> Use("ks"), values |-> <<>>]
    /\ response.tag = "Ok"
    /\ \E c, o \in Connections :
          /\ conc.pc[c] = "ran"
          /\ conc.current[c].query.tag = "Select"
          /\ conc.current[c].query.keyspace = None
          /\ conc.result[c].tag = "Ok"
          /\ Len(conc.result[c].value.rows) = 1
          /\ conc.pc[o] = "waiting"
          /\ conc.current[o].query = Use("ks2")

(***************************************************************************)
(* Client statements on the tables of the system keyspaces.                *)
(***************************************************************************)
Str(s) == Literal([tag |-> "String", s |-> s])

SystemSchema == Some("system_schema")

System == Some("system")

\* DELETE FROM system_schema.keyspaces WHERE keyspace_name = '<name>'
DeleteKeyspaceRow(name) ==
    Delete(SystemSchema, "keyspaces", <<>>, << <<"keyspace_name", Str(name)>> >>)

\* INSERT INTO system_schema.keyspaces (keyspace_name) VALUES ('<name>')
InsertKeyspaceRow(name) ==
    Insert(SystemSchema, "keyspaces", <<"keyspace_name">>, <<Str(name)>>)

\* INSERT INTO system.local (key, cluster_name) VALUES ('local', '<name>')
InsertLocal(name) ==
    Insert(System, "local", <<"key", "cluster_name">>, <<Str("local"), Str(name)>>)

\* DELETE FROM system.local WHERE key = 'local'
DeleteLocal == Delete(System, "local", <<>>, << <<"key", Str("local")>> >>)

SystemWrites ==
    {DeleteKeyspaceRow("ks"), DeleteKeyspaceRow("system"), InsertKeyspaceRow("ks2"),
     InsertLocal("c"), DeleteLocal}

SystemTables ==
    {<<"system", "local">>, <<"system_schema", "keyspaces">>,
     <<"system_schema", "tables">>, <<"system_schema", "columns">>}

SystemPool ==
    SystemWrites
    \cup {Select(Some(t[1]), t[2], All, <<>>, None) : t \in SystemTables}
    \cup {CreateKeyspace("ks2", TRUE), CreateNarrowT}

InitSystem == InitSchema

NextSystem == \E q \in SystemPool : Query(q, <<>>)

SpecSystem == InitSystem /\ [][NextSystem]_vars

\* SELECT * FROM <keyspace>.<table> on a session.
SelectAllFrom(session, t) ==
    Session_process(session, Select(Some(t[1]), t[2], All, <<>>, None),
                    Parameters(<<>>)).res

IsSystemWrite(req) ==
    /\ req.op = "Query"
    /\ req.query.tag \in {"Insert", "Delete"}
    /\ req.query.keyspace \in {System, SystemSchema}

\* C20: an INSERT or DELETE on a table of system or system_schema is
\* answered without an error and changes neither the catalog nor the rows a
\* SELECT * of any table of these keyspaces returns.
C20_SystemWritesHaveNoEffect ==
    [][(Answered /\ IsSystemWrite(request'))
          => /\ response'.tag = "Ok"
             /\ schema' = schema
             /\ \A t \in SystemTables :
                   SelectAllFrom(Session', t) = SelectAllFrom(Session, t)]_vars

(***************************************************************************)
(* Frames.  Server::client (kassandra-node) and KassandraTester::client    *)
(* read one frame at a time from a connection, decode it, deserialize the  *)
(* request, handle it and send the response with the frame's stream id.    *)
(* A CQL text is either a text the parser accepts as a statement or a text *)
(* it rejects.                                                             *)
(***************************************************************************)
CqlString(q) == [tag |-> "Cql", query |-> q]

Garbage == [tag |-> "Garbage"]

COMPRESSION == 1

FrameOf(version, flags, stream, opcode, body) ==
    [version |-> version, flags |-> flags, stream |-> stream,
     opcode |-> opcode, body |-> body]

\* parser::query
parser_query(text) ==
    IF text.tag = "Cql" THEN Ok(text.query) ELSE Err("parse error")

\* Query::parse
Query_parse(body) ==
    IF parser_query(body).tag # "Ok"
    THEN Err(Error_new("SyntaxError", "Could not parse query"))
    ELSE Ok([op |-> "Query", query |-> parser_query(body).value, values |-> <<>>])

\* frame/request/prepare.rs: parse
prepare_parse(body) ==
    IF parser_query(body).tag # "Ok"
    THEN Err(Error_new("SyntaxError", "Could not parse query"))
    ELSE Ok([op |-> "Prepare", query |-> parser_query(body).value])

\* Request::deserialize
Request_deserialize(opcode, body) ==
    CASE opcode = "Query" -> Query_parse(body)
      [] opcode = "Prepare" -> prepare_parse(body)
      [] opcode = "Options" -> Ok([op |-> "Options"])

\* RequestFrameCodec::decode: the flags must be known bits and must not
\* contain COMPRESSION.
RequestFrameCodec_decode(frame) ==
    IF frame.flags >= 16 THEN Err("invalid flag")
    ELSE IF frame.flags % 2 = COMPRESSION THEN Err("Compression is not supported")
    ELSE Ok(frame)

\* Response::unsupported_version
unsupported_version == Err(Error_new("ProtocolError", "unsupported protocol version"))

\* Response::options
Supported == Ok([kind |-> "Supported"])

\* What handling one frame leaves: the response sent (None when nothing is
\* sent), whether the connection task goes on reading, the session and
\* whether the mutex is poisoned.
Handled(sent, open, session, poisoned) ==
    [sent |-> sent, open |-> open, session |-> session, poisoned |-> poisoned]

\* Server::request and KassandraTester::request: OPTIONS is answered
\* without the session; the other requests take the mutex with
\* lock().unwrap(), which panics on a poisoned mutex, and a panic of the
\* handler while the guard is held poisons it.  A panic ends the
\* connection's task.
Request_locked(session, poisoned, req, id) ==
    IF req.op = "Options" THEN Handled(Supported, TRUE, session, poisoned)
    ELSE IF poisoned THEN Handled(None, FALSE, session, TRUE)
    ELSE Only({
      IF r.res.tag = "Panic" THEN Handled(None, FALSE, session, TRUE)
      ELSE Handled(r.res, TRUE, r.session, FALSE)
      : r \in {Server_request(session,
                              IF req.op = "Prepare"
                              THEN [op |-> "Prepare", query |-> req.query, id |-> id]
                              ELSE req)} })

\* Server::client, one turn of the loop: a frame that does not decode
\* breaks the loop; an unsupported version is answered; an error of
\* Request::deserialize leaves the function through `?`.
Server_client(session, poisoned, frame, id) ==
    IF RequestFrameCodec_decode(frame).tag # "Ok"
    THEN Handled(None, FALSE, session, poisoned)
    ELSE IF frame.version # 4
    THEN Handled(unsupported_version, TRUE, session, poisoned)
    ELSE IF Request_deserialize(frame.opcode, frame.body).tag # "Ok"
    THEN Handled(None, FALSE, session, poisoned)
    ELSE Request_locked(session, poisoned,
                        Request_deserialize(frame.opcode, frame.body).value, id)

\* KassandraTester::client, one turn of the loop: a frame that does not
\* decode breaks the loop; an error of Request::deserialize is answered
\* with a protocol error.
KassandraTester_client(session, poisoned, frame, id) ==
    IF RequestFrameCodec_decode(frame).tag # "Ok"
    THEN Handled(None, FALSE, session, poisoned)
    ELSE IF Request_deserialize(frame.opcode, frame.body).tag # "Ok"
    THEN Handled(Err(Error_new("ProtocolError", "Error parsing request")),
                 TRUE, session, poisoned)
    ELSE Request_locked(session, poisoned,
                        Request_deserialize(frame.opcode, frame.body).value, id)

Streams == {1, 2}

FrameBodies ==
    {<<"Query", Garbage>>, <<"Prepare", Garbage>>,
     <<"Query", CqlString(InsertN(Lit(MaxVal), Lit(MaxVal)))>>,
     <<"Prepare", CqlString(SelectTBinds)>>,
     <<"Options", None>>,
     <<"Query", CqlString(CreateType)>>}

FramePool ==
    {FrameOf(4, 0, s, b[1], b[2]) : s \in Streams, b \in FrameBodies}
    \cup {FrameOf(4, COMPRESSION, s,
                  "Query", CqlString(InsertN(Lit(MaxVal), Lit(MaxVal)))) : s \in Streams}
    \cup {FrameOf(3, 0, 1, "Options", None)}

FrontEnds == {"node", "tester"}

FramesIdle(front) ==
    [front |-> front,
     open |-> [c \in Connections |-> TRUE],
     poisoned |-> FALSE,
     sent |-> [c \in Connections |-> <<>>]]

InitFrames ==
    /\ \E s \in SeededSessions, front \in FrontEnds :
          InitSession(s) /\ conc = FramesIdle(front)
    /\ paging = NoPaging

\* The outcome o of a turn of connection c's loop on the frame.
FrameHandled(c, frame, o) ==
    /\ SessionBecomes(o.session)
    /\ request' = [op |-> "Frame", conn |-> c, frame |-> frame]
    /\ response' = o.sent
    /\ steps' = steps + 1
    /\ conc' = [conc EXCEPT
                  !.open[c] = o.open,
                  !.poisoned = o.poisoned,
                  !.sent[c] = IF o.sent = None THEN @
                              ELSE Append(@, [stream |-> frame.stream,
                                              response |-> o.sent])]
    /\ UNCHANGED <<returned, paging>>

NodeFrame(c, frame, id) ==
    /\ steps < MaxSteps
    /\ conc.front = "node"
    /\ conc.open[c]
    /\ id \notin DOMAIN query_cache
    /\ \E o \in {Server_client(Session, conc.poisoned, frame, id)} :
          FrameHandled(c, frame, o)

TesterFrame(c, frame, id) ==
    /\ steps < MaxSteps
    /\ conc.front = "tester"
    /\ conc.open[c]
    /\ id \notin DOMAIN query_cache
    /\ \E o \in {KassandraTester_client(Session, conc.poisoned, frame, id)} :
          FrameHandled(c, frame, o)

NextFrames ==
    \/ \E c \in Connections, frame \in FramePool, id \in IdPool : NodeFrame(c, frame, id)
    \/ \E c \in Connections, frame \in FramePool, id \in IdPool : TesterFrame(c, frame, id)

SpecFrames == InitFrames /\ [][NextFrames]_vars

\* The frame handled in this step, if one was.
HandledFrame(f) == Answered /\ request'.op = "Frame" /\ request'.frame = f

\* The response was sent on the connection with the frame's stream id.
SentOnStream(f) ==
    \E c \in Connections :
       /\ request'.conn = c
       /\ conc'.sent[c] = Append(conc.sent[c], [stream |-> f.stream,
                                                 response |-> response'])

\* C21: a QUERY or PREPARE frame whose text the parser rejects is answered
\* on the frame's stream with an error of kind syntax-error and changes no
\* engine state.
C21_UnparsableTextIsSyntaxError ==
    [][\A f \in FramePool :
          (HandledFrame(f) /\ f.version = 4 /\ f.flags = 0
             /\ f.opcode \in {"Query", "Prepare"} /\ f.body = Garbage)
          => /\ response'.tag = "Err"
             /\ response'.error.kind = "SyntaxError"
             /\ SentOnStream(f)
             /\ EngineUnchanged]_vars

\* C22: a frame with the COMPRESSION flag is answered with an error of kind
\* protocol-error and does not change engine state.
C22_CompressionIsProtocolError ==
    [][\A f \in FramePool :
          (HandledFrame(f) /\ f.flags % 2 = COMPRESSION)
          => /\ response'.tag = "Err"
             /\ response'.error.kind = "ProtocolError"
             /\ SentOnStream(f)
             /\ EngineUnchanged]_vars

(***************************************************************************)
(* The order of the columns.                                               *)
(***************************************************************************)
\* The CREATE TABLE statement that made a table of ks.
CreateStatementOf(table) ==
    CASE table = "t" -> CreateT(Ks, FALSE)
      [] table = "s" -> CreateS(Ks, FALSE)
      [] table = "n" -> CreateN(Ks, FALSE)
      [] table = "r" -> CreateR(Ks, FALSE)

\* The column names in the order of the statement's column definitions.
DeclaredColumns(create) == [i \in 1..Len(create.columns) |-> create.columns[i][1]]

IsSelectAll(req) ==
    /\ req.op = "Query" /\ req.query.tag = "Select" /\ req.query.columns = All
    /\ req.query.keyspace = Ks
    /\ TableOf(req.query) # None

\* C23: SELECT * returns the column specs of the result, and the values of
\* each row, in the order in which the table's CREATE TABLE statement
\* declared the columns.
C23_SelectAllIsInDeclaredOrder ==
    [][(Answered /\ IsSelectAll(request') /\ response'.tag = "Ok")
       => /\ response'.value.col_specs =
                DeclaredColumns(CreateStatementOf(request'.query.table))
          /\ \A i \in 1..Len(response'.value.rows) :
                \E r \in Addressed(data, request'.query) :
                   response'.value.rows[i] =
                      Shown(r.row, DeclaredColumns(CreateStatementOf(request'.query.table)))]_vars

(***************************************************************************)
(* SELECT JSON.                                                            *)
(***************************************************************************)
Columns(names) == [tag |-> "Columns", names |-> names]

SelectJson(ks, table, columns, where) ==
    [Select(ks, table, columns, where, None) EXCEPT !.json = TRUE]

JsonSelectors == {<<"k", "v">>, <<"v", "k">>, <<"v">>}

JsonPool ==
    {SelectJson(Ks, "n", Columns(names), <<>>) : names \in JsonSelectors}
    \cup {SelectJson(Ks, "n", Columns(names), << <<"k", Lit(1)>> >>) :
             names \in JsonSelectors}
    \cup {Select(Ks, "n", Columns(names), <<>>, None) : names \in JsonSelectors}
    \cup {SelectJson(Ks, "n", All, <<>>),
          SelectJson(Ks, "r", Columns(<<"b", "a">>), <<>>),
          SelectJson(Ks, "n", Columns(<<"zz">>), <<>>)}
    \cup {InsertN(Lit(k), Lit(MaxVal)) : k \in Vals}
    \cup {Delete(Ks, "n", <<>>, << <<"k", Lit(1)>> >>)}

NextJson == \E q \in JsonPool : Query(q, <<>>)

SpecJson == InitRows /\ [][NextJson]_vars

IsSelectJsonOfColumns(req) ==
    /\ req.op = "Query" /\ req.query.tag = "Select" /\ req.query.json
    /\ req.query.columns.tag = "Columns"

\* The answer of the same SELECT without JSON in the current state.
PlainSelect(q) ==
    Session_process(Session, [q EXCEPT !.json = FALSE], Parameters(<<>>)).res

\* C24: SELECT JSON returns, for each row of the plain SELECT, one row with
\* the single Text column json holding an object whose keys are the
\* selected columns in the order of the selector list, each with the value
\* of the plain row.
C24_SelectJsonKeepsTheSelectorOrder ==
    [][(Answered /\ IsSelectJsonOfColumns(request') /\ PlainSelect(request'.query).tag = "Ok")
       => /\ response'.tag = "Ok"
          /\ response'.value.kind = "Rows"
          /\ response'.value.col_specs = <<"json">>
          /\ Len(response'.value.rows) = Len(PlainSelect(request'.query).value.rows)
          /\ \A i \in 1..Len(response'.value.rows) :
                /\ Len(response'.value.rows[i]) = 1
                /\ response'.value.rows[i][1].tag = "Text"
                /\ response'.value.rows[i][1].json =
                      [j \in 1..Len(request'.query.columns.names) |->
                          <<request'.query.columns.names[j],
                            PlainSelect(request'.query).value.rows[i][j]>>]]_vars

(***************************************************************************)
(* PREPARE of statements that mix literals and bind markers.               *)
(***************************************************************************)
Terms == {Lit(1), Blankslate}

MixedPool ==
    {Select(Ks, "t", All, TPartition(k1, k2), None) : k1, k2 \in Terms}
    \cup {Select(Ks, "t", All, TKey(Lit(1), k2, c1, Blankslate), None) : k2, c1 \in Terms}
    \cup {InsertS(k, c, Blankslate) : k, c \in Terms}
    \cup {Insert(Ks, "s", <<"v", "c", "k">>, <<v, Lit(1), k>>) : v, k \in Terms}
    \cup {Delete(Ks, "t", <<>>, TPartition(Lit(1), Blankslate)),
          Delete(Ks, "t", <<>>, << <<"k2", Blankslate>>, <<"k1", Blankslate>> >>),
          SelectUnknownTable}

NextMixed ==
    \/ \E q \in MixedPool, id \in IdPool : Prepare(q, id)
    \/ \E id \in ExecuteIds, values \in ExecuteValues : Execute(id, values)

SpecMixed == Init /\ [][NextMixed]_vars

\* The positions of the statement's terms that are bind markers.
MarkerTerms(q) == {i \in 1..Len(TermsOf(q)) : TermsOf(q)[i][2].tag = "Blankslate"}

\* The position of the marker at term i among the bind markers, from 0.
MarkerPosition(q, i) == Cardinality({j \in MarkerTerms(q) : j < i})

\* The rank of a column in a primary key, from 0.
RankIn(pk, column) ==
    (CHOOSE r \in 1..Len(PrimaryKeyNames(pk)) : PrimaryKeyNames(pk)[r] = column) - 1

IsPrepared(req, res) == req.op = "Prepare" /\ res.tag = "Ok"

\* C25: the pk_indexes a PREPARE returns have exactly one entry per bind
\* marker on a partition-key column, with the marker's position among the
\* bind markers and the column's rank in the partition key.
C25_PkIndexesCountBindMarkers ==
    [][(Answered /\ IsPrepared(request', response'))
       => LET q == request'.query
              pk == TableOf(q).partition_key
              onKey == {i \in MarkerTerms(q) :
                           TermsOf(q)[i][1] \in Range(PrimaryKeyNames(pk))}
              indexes == response'.value.prepared_metadata.pk_indexes
          IN /\ Len(indexes) = Cardinality(onKey)
             /\ Range(indexes) =
                   {[index |-> MarkerPosition(q, i),
                     sequence |-> RankIn(pk, TermsOf(q)[i][1])] : i \in onKey}]_vars

(***************************************************************************)
(* SIGINT (kassandra-node/src/main.rs, main): the ctrl_c branch of the     *)
(* select! locks the session, serialises the engine, writes it to the data *)
(* path and returns from main, while the connections' tasks run.           *)
(***************************************************************************)
\* KassandraSession::save_state: the engine, without the current keyspace.
save_state(session) ==
    [format |-> "ron",
     data |-> session.engine.data,
     schema |-> session.engine.schema,
     query_cache |-> session.engine.query_cache]

\* A ctrl_c branch that does not wait for the mutex.
main_lock_without_waiting(lock) == TRUE

\* main: server.kassandra.lock().unwrap() in the ctrl_c branch.
main_lock(lock) == Mutex_lock(lock)

SignalPool == {req \in ConcPool : req.op \in {"Batch", "Query"}}

InitSignal ==
    /\ \E s \in SeededSessions :
          InitSession(s) /\ conc = ConcIdle(s) @@ [saved |-> None]
    /\ paging = NoPaging

\* The process has not returned from main.
Serving == conc.saved = None

\* The ctrl_c branch: the state is written and main returns.
Sigint ==
    /\ Serving
    /\ main_lock(conc.lock)
    /\ conc' = [conc EXCEPT !.saved = save_state(Session)]
    /\ UNCHANGED <<use_keyspace, data, schema, query_cache, request, response,
                   steps, returned, paging>>

\* The connections' tasks, as long as the process lives.
ServingReceive(c, req) == Serving /\ Receive(c, req)

ServingLock(c, id) == Serving /\ Lock(c, id)

ServingRun(c) == Serving /\ Run(c)

ServingUnlock(c) == Serving /\ Unlock(c)

NextSignal ==
    \/ \E c \in Connections, req \in SignalPool : ServingReceive(c, req)
    \/ \E c \in Connections, id \in 1..MaxConcSteps : ServingLock(c, id)
    \/ \E c \in Connections : ServingRun(c)
    \/ \E c \in Connections : ServingUnlock(c)
    \/ Sigint

SpecSignal == InitSignal /\ [][NextSignal]_vars

\* C26: the state written on SIGINT is the engine as the requests that took
\* the lock so far leave it when each is run as a whole, one after the
\* other; no connection is inside a request or a batch at that moment.
C26_SavedStateIsBetweenWholeRequests ==
    [][(conc.saved = None /\ conc'.saved # None)
       => /\ conc'.saved = save_state(conc.serial)
          /\ \A c \in Connections :
                conc.pc[c] \in {"idle", "waiting"} /\ conc.todo[c] = <<>>]_vars

\* The state was written after one connection's batch was answered while
\* the other connection's batch waits for the lock; the written rows hold
\* the row the answered batch inserted.
C26_Witness ==
    /\ conc.saved # None
    /\ conc.saved.data = data
    /\ request.op = "Batch" /\ response = Ok(Void)
    /\ \E r \in RowsOfT(1, 1) : r.row["c1"] = CqlInt(MaxVal) /\ r.row["c2"] = CqlInt(MaxVal)
    /\ \E c \in Connections : conc.pc[c] = "waiting" /\ conc.current[c].op = "Batch"

\* C27: once a handler has panicked while it held the engine lock, no
\* later frame of any connection is run on the engine or answered.
C27_PanicUnderTheLockEndsTheService ==
    [][(Answered /\ conc.poisoned)
       => /\ response' = None
          /\ EngineUnchanged
          /\ conc'.sent = conc.sent]_vars

(***************************************************************************)
(* DELETE of named columns.                                                *)
(***************************************************************************)
DeleteColumns(names, k) == Delete(Ks, "r", names, << <<"k", Lit(k)>> >>)

ColumnDeletes ==
    {DeleteColumns(names, k) : names \in {<<"a">>, <<"b">>, <<"a", "b">>}, k \in Vals}

ColumnsPool ==
    ColumnDeletes
    \cup {Select(Ks, "r", All, <<>>, None)}
    \cup {Select(Ks, "r", All, << <<"k", Lit(k)>> >>, None) : k \in Vals}
    \cup {Insert(Ks, "r", <<"k", "b">>, <<Lit(1), Lit(MaxVal)>>)}

NextColumns == \E q \in ColumnsPool : Query(q, <<>>)

SpecColumns == InitRows /\ [][NextColumns]_vars

IsColumnDelete(req) ==
    /\ req.op = "Query" /\ req.query.tag = "Delete" /\ req.query.columns # <<>>
    /\ TableOf(req.query) # None

\* The columns of a stored row that are not key columns and hold a value.
RemainingColumns(tschema, row) ==
    {name \in DOMAIN row :
        /\ name \notin Range(PrimaryKeyNames(tschema.partition_key))
        /\ name \notin Range(PrimaryKeyNames(tschema.clustering_key))
        /\ row[name] # CqlEmpty}

\* C28: when a DELETE of named columns leaves a row that existed without
\* any non-key column holding a value, the row is no longer stored and no
\* SELECT of its key or of the table returns a row for it.
C28_RowWithoutColumnsIsRemoved ==
    [][(/\ Answered /\ IsColumnDelete(request') /\ response' = Ok(Void)
        /\ Addressed(data, request'.query) # {}
        /\ \A r \in Addressed(data', request'.query) :
              RemainingColumns(TableOf(request'.query), r.row) = {})
       => /\ Addressed(data', request'.query) = {}
          /\ Session_process(Session', Select(Ks, "r", All, request'.query.where, None),
                             Parameters(<<>>)).res.value.rows = <<>>]_vars

(***************************************************************************)
(* The order of values and keys (derive(Ord) of CqlValue and of the key    *)
(* types), applied to pairs of values.                                     *)
(***************************************************************************)
Scalars ==
    {CqlInt(n) : n \in 0..MaxVal}
    \cup {CqlText(s) : s \in {"a", "b"}}
    \cup {CqlBoolean(b) : b \in BOOLEAN}

OrderValues ==
    Scalars \cup {CqlEmpty}
    \cup {CqlTuple(<<CqlInt(1), x>>) : x \in {CqlInt(1), CqlInt(MaxVal), CqlEmpty}}

\* a < b and b < a as values, and as the clustering keys made of them.
Compare(a, b) ==
    /\ steps < MaxSteps
    /\ request' = [op |-> "Compare", a |-> a, b |-> b]
    /\ response' = [less |-> CqlLess(a, b),
                    greater |-> CqlLess(b, a),
                    key_less |-> KeyLess(ClusteringKeyFrom(a), ClusteringKeyFrom(b)),
                    key_greater |-> KeyLess(ClusteringKeyFrom(b), ClusteringKeyFrom(a))]
    /\ steps' = steps + 1
    /\ UNCHANGED <<use_keyspace, data, schema, query_cache, returned, conc, paging>>

NextOrder == \E a, b \in OrderValues : Compare(a, b)

SpecOrder == Init /\ [][NextOrder]_vars

\* C29 as stated: Empty is strictly less than every concrete value.
C29_EmptyIsLeast ==
    (request.op = "Compare" /\ request.a = CqlEmpty /\ request.b \in Scalars)
       => /\ response.less /\ ~response.greater
          /\ response.key_less /\ ~response.key_greater

\* C29, amended: Empty is strictly greater than every concrete value, as a
\* value, as a key, and as a component of a composite key after an equal
\* prefix.
C29_EmptyIsGreatest ==
    /\ (request.op = "Compare" /\ request.a = CqlEmpty /\ request.b \in Scalars)
          => /\ response.greater /\ ~response.less
             /\ response.key_greater /\ ~response.key_less
    /\ (request.op = "Compare"
          /\ request.a = CqlTuple(<<CqlInt(1), CqlEmpty>>)
          /\ request.b \in {CqlTuple(<<CqlInt(1), x>>) : x \in Scalars})
          => response.key_greater /\ ~response.key_less

C29_Witness ==
    /\ request.op = "Compare"
    /\ request.a = CqlTuple(<<CqlInt(1), CqlEmpty>>)
    /\ request.b = CqlTuple(<<CqlInt(1), CqlInt(MaxVal)>>)
    /\ response.key_greater

(***************************************************************************)
(* CREATE TABLE texts (cql/parser/mod.rs, create_table_query).  A text is  *)
(* its column definitions, each with or without an inline PRIMARY KEY, and *)
(* its PRIMARY KEY clause if it has one: ((p, ..), c, ..) or (p, c, ..).   *)
(***************************************************************************)
ColumnDef(name, primary) == [name |-> name, ty |-> "int", primary |-> primary]

CompositeKeyClause(partition, clustering) ==
    [tag |-> "Composite", partition |-> partition, clustering |-> clustering]

CompoundKeyClause(names) == [tag |-> "Compound", names |-> names]

CreateTableText(table, defs, key) == [table |-> table, defs |-> defs, key |-> key]

\* primary_key_definition: the partition keys and the clustering keys of a
\* PRIMARY KEY clause; both lists of names are parsed by separated_list1.
primary_key_definition(key) ==
    CASE key.tag = "Composite" /\ key.partition # <<>> ->
           Ok([pk |-> key.partition, ck |-> key.clustering])
      [] key.tag = "Compound" /\ key.names # <<>> ->
           Ok([pk |-> <<Head(key.names)>>, ck |-> Tail(key.names)])
      [] OTHER -> Err("parse error")

\* with_primary_key_inline: the partition key is the first column marked
\* PRIMARY KEY, if there is one; there are no clustering keys.
with_primary_key_inline(defs) ==
    [pk |-> IF \E i \in 1..Len(defs) : defs[i].primary
            THEN <<defs[CHOOSE i \in 1..Len(defs) :
                          /\ defs[i].primary
                          /\ \A j \in 1..(i - 1) : ~defs[j].primary].name>>
            ELSE <<>>,
     ck |-> <<>>]

\* create_table_query: with a PRIMARY KEY clause the columns before it
\* (many_till: none or more) are parsed without inline keys; without one,
\* with_primary_key_inline parses one column or more (separated_list1).
create_table_query(text) ==
    IF text.key # None
    THEN IF (\E i \in 1..Len(text.defs) : text.defs[i].primary)
            \/ primary_key_definition(text.key).tag # "Ok"
         THEN Err("parse error")
         ELSE Ok(CreateTable(Ks, text.table, FALSE,
                             [i \in 1..Len(text.defs) |->
                                 <<text.defs[i].name, text.defs[i].ty>>],
                             primary_key_definition(text.key).value.pk,
                             primary_key_definition(text.key).value.ck))
    ELSE IF text.defs = <<>> THEN Err("parse error")
    ELSE Ok(CreateTable(Ks, text.table, FALSE,
                        [i \in 1..Len(text.defs) |->
                            <<text.defs[i].name, text.defs[i].ty>>],
                        with_primary_key_inline(text.defs).pk,
                        with_primary_key_inline(text.defs).ck))

TablePool ==
    {CreateTableText("a", <<ColumnDef("a", TRUE), ColumnDef("b", FALSE)>>, None),
     CreateTableText("b", <<ColumnDef("a", FALSE), ColumnDef("b", FALSE)>>, None),
     CreateTableText("c", <<ColumnDef("a", TRUE), ColumnDef("b", TRUE)>>, None),
     CreateTableText("k", <<ColumnDef("a", FALSE), ColumnDef("b", FALSE)>>,
                     CompoundKeyClause(<<"a", "b">>)),
     CreateTableText("n", <<ColumnDef("a", FALSE), ColumnDef("b", FALSE)>>,
                     CompositeKeyClause(<<"a", "b">>, <<>>)),
     CreateTableText("r", <<ColumnDef("a", TRUE), ColumnDef("b", FALSE)>>,
                     CompoundKeyClause(<<"b">>)),
     CreateTableText("s", <<ColumnDef("a", FALSE), ColumnDef("b", FALSE)>>,
                     CompoundKeyClause(<<>>)),
     CreateTableText("u", <<>>, None),
     CreateTableText("v", <<ColumnDef("a", FALSE)>>, CompoundKeyClause(<<"a">>))}

\* A QUERY with a CREATE TABLE text: Query::parse, then the session.
QueryText(text) ==
    /\ steps < MaxSteps
    /\ \E q \in {create_table_query(text)} :
          Answer([op |-> "QueryText", text |-> text],
                 IF q.tag # "Ok"
                 THEN [res |-> Err(Error_new("SyntaxError", "Could not parse query")),
                       session |-> Session]
                 ELSE Session_process(Session, q.value, Parameters(<<>>)))
    /\ UNCHANGED <<returned, conc, paging>>

NextTables == \E text \in TablePool : QueryText(text)

SpecTables == InitSchema /\ [][NextTables]_vars

\* C30: every table of the catalog has a partition key of at least one
\* column, and a column of kind partition_key.
C30_EveryTableHasAPartitionKey ==
    \A ks \in DOMAIN schema :
       \A tb \in DOMAIN schema[ks].tables :
          /\ PrimaryKeyCount(schema[ks].tables[tb].schema.partition_key) >= 1
          /\ \E i \in 1..Len(schema[ks].tables[tb].schema.columns) :
                schema[ks].tables[tb].schema.columns[i].kind = "partition_key"

(***************************************************************************)
(* The paging token, written and read back (frame/value.rs,                *)
(* frame/request/query_params.rs).                                         *)
(***************************************************************************)
TokenBytes == {None, Some(<<1>>), Some(serialize_int(MaxVal))}

\* One-byte and two-byte varints.
TokenCounts == {0, 1, MaxVal, 200}

PagingStates ==
    [partition_key : TokenBytes, row_mark : TokenBytes,
     remaining : TokenCounts, remaining_in_partition : TokenCounts]

\* PagingState::encode into a buffer, then parse::opt_paging_state on it.
EncodeDecode(state) ==
    /\ steps < MaxSteps
    /\ request' = [op |-> "EncodeDecode", state |-> state]
    /\ response' = opt_paging_state(write_bytes(PagingState_encode(state)))
    /\ steps' = steps + 1
    /\ UNCHANGED <<use_keyspace, data, schema, query_cache, returned, conc, paging>>

NextToken == \E state \in PagingStates : EncodeDecode(state)

SpecToken == Init /\ [][NextToken]_vars

\* C31: decoding the bytes of an encoded paging state returns its four
\* fields.
C31_PagingStateRoundTrip ==
    request.op = "EncodeDecode" => response = Ok(Some(request.state))

\* The value a SELECT's WHERE gives the named column.
GivenValue(q, name) ==
    CqlInt(q.where[CHOOSE i \in 1..Len(q.where) : q.where[i][1] = name][2].lit.n)

\* C32: on a table with one clustering column, a SELECT with the full
\* partition key and an equality on the clustering column returns only rows
\* with that clustering value, hence at most one row.
C32_ClusteringEqualityReturnsOneRow ==
    [][(/\ Answered /\ IsPrefixSelect(request') /\ OnFullKey(request'.query)
        /\ PrimaryKeyCount(TableOf(request'.query).clustering_key) = 1)
       => /\ response'.tag = "Ok"
          /\ response'.value.kind = "Rows"
          /\ Len(response'.value.rows) <= 1
          /\ \A i \in 1..Len(response'.value.rows) :
                response'.value.rows[i][
                    ColumnIndex(response'.value.col_specs,
                                PrimaryKeyNames(TableOf(request'.query).clustering_key)[1])]
                = GivenValue(request'.query,
                             PrimaryKeyNames(TableOf(request'.query).clustering_key)[1])]_vars

(***************************************************************************)
(* DELETE statements on ks.t, PRIMARY KEY ((k1, k2), c1, c2), that give    *)
(* the partition key and none, some or all of the clustering columns,      *)
(* with INSERTs that write the rows again.                                 *)
(***************************************************************************)
PartialDeletes ==
    {Delete(Ks, "t", <<>>, TPartition(Lit(1), Lit(1)) \o << <<"c1", Lit(c)>> >>) :
        c \in Vals}
    \cup {Delete(Ks, "t", <<>>, TPartition(Lit(1), Lit(1)) \o << <<"c2", Lit(c)>> >>) :
             c \in Vals}

PartialPool ==
    PartialDeletes
    \cup {Delete(Ks, "t", <<>>, TKey(Lit(1), Lit(1), Lit(c1), Lit(c2))) :
             c1 \in Vals, c2 \in Vals}
    \cup {Delete(Ks, "t", <<>>, TPartition(Lit(k1), Lit(1))) : k1 \in Vals}
    \cup {Select(Ks, "t", All, TPartition(Lit(1), Lit(1)), None)}
    \cup {InsertT(Lit(1), Lit(1), Lit(c1), Lit(c2), Lit(MaxVal)) :
             c1 \in Vals, c2 \in Vals}

NextPartial == \E q \in PartialPool : Query(q, <<>>)

SpecPartial == Init /\ [][NextPartial]_vars

\* The WHERE gives the partition key and some clustering columns, not all.
OnPartOfTheClusteringKey(q) ==
    /\ Range(PrimaryKeyNames(TableOf(q).partition_key)) \subseteq RestrictedColumns(q)
    /\ RestrictedColumns(q) \cap Range(PrimaryKeyNames(TableOf(q).clustering_key)) # {}
    /\ ~(Range(PrimaryKeyNames(TableOf(q).clustering_key)) \subseteq RestrictedColumns(q))

\* C33: a DELETE that gives the partition key and only some of the
\* clustering columns removes no row whose clustering key differs from the
\* given values.
C33_PartialDeleteKeepsTheOtherRows ==
    [][(Answered /\ IsRowDelete(request') /\ OnPartOfTheClusteringKey(request'.query))
       => (AllRows(data) \ Addressed(data, request'.query)) \subseteq AllRows(data')]_vars

\* C34: a DELETE with a complete key on a table of the catalog is answered
\* with Void, whether or not a row was ever written to the table and whether
\* or not a SELECT was ever issued on it.
C34_DeleteOnFullKeyIsVoid ==
    [][(Answered /\ IsRowDelete(request') /\ OnFullKey(request'.query))
       => response' = Ok(Void)]_vars

IsSelect(req) == req.op = "Query" /\ req.query.tag = "Select"

\* C35: a SELECT, a read of one partition or a scan, leaves the state that
\* save_state serialises as it was.
C35_SelectLeavesTheSavedStateUnchanged ==
    [][(Answered /\ IsSelect(request'))
       => save_state([use_keyspace |-> use_keyspace',
                      engine |-> [data |-> data', schema |-> schema',
                                  query_cache |-> query_cache']])
          = save_state(Session)]_vars

\* The regular columns an INSERT names with a bind value that is null.
NullColumns(req) ==
    {req.query.columns[i] : i \in {j \in 1..Len(req.query.columns) :
                                        Given(req, j).tag = "Null"}}
    \ KeyColumns(TableOf(req.query))

\* An INSERT that gives the key columns values and some regular column a
\* bind value that is null.
IsInsertWithNull(req) ==
    /\ IsInsert(req)
    /\ KeyColumns(TableOf(req.query)) \subseteq ValuedColumns(req)
    /\ NullColumns(req) # {}

\* SELECT * of the row an INSERT names, by its full primary key.
SelectRowOf(req) ==
    Select(req.query.keyspace, req.query.table, All,
           [i \in 1..Len(PrimaryKeyNames(TableOf(req.query).partition_key)
                         \o PrimaryKeyNames(TableOf(req.query).clustering_key)) |->
               <<(PrimaryKeyNames(TableOf(req.query).partition_key)
                  \o PrimaryKeyNames(TableOf(req.query).clustering_key))[i],
                 Lit(ValueOf(req, (PrimaryKeyNames(TableOf(req.query).partition_key)
                                   \o PrimaryKeyNames(TableOf(req.query).clustering_key))[i]).n)>>],
           None)

\* C36: after an INSERT that binds null to a regular column of an existing
\* row, a SELECT of that row returns null for the column.
C36_NullBindClearsTheColumn ==
    [][(Answered /\ IsInsertWithNull(request') /\ RowsWithKeyOf(data, request') # {})
       => LET after == [use_keyspace |-> use_keyspace',
                        engine |-> [data |-> data', schema |-> schema',
                                    query_cache |-> query_cache']]
              result == Session_process(after, SelectRowOf(request'), Parameters(<<>>)).res
          IN /\ response' = Ok(Void)
             /\ result.tag = "Ok"
             /\ Len(result.value.rows) = 1
             /\ \A name \in NullColumns(request') :
                   result.value.rows[1][ColumnIndex(result.value.col_specs, name)] = None]_vars

(***************************************************************************)
(* Paging with every page size a request can carry, 0 included             *)
(* (result_page_size is an [int] read as a u32).  The number of page       *)
(* requests of a run is capped.                                            *)
(***************************************************************************)
PageRequestsLeft == steps < MaxSteps + MaxPageSize

FirstPageOfSize(q, p) == PageRequestsLeft /\ FirstPage(q, p)

FollowingPage == PageRequestsLeft /\ NextPage

NextPageSizes ==
    \/ \E q \in PagingPool, p \in 0..MaxPageSize : FirstPageOfSize(q, p)
    \/ FollowingPage

SpecPageSizes == Init /\ [][NextPageSizes]_vars

\* C37: every page that carries a paging state holds at least one row, for
\* every page size including 0, so that following the paging states of a
\* query ends.
C37_PageWithPagingStateHoldsARow ==
    (/\ request.op = "Query" /\ "result_page_size" \in DOMAIN request
     /\ response.tag = "Ok" /\ response.value.paging_state # None)
       => Len(response.value.rows) >= 1

(***************************************************************************)
(* A paginated scan with the requests of another connection between its    *)
(* page requests.  The scans carry a LIMIT above the number of rows;       *)
(* paging.full keeps the rows of the first result that were in the table   *)
(* unchanged at every request since.                                       *)
(***************************************************************************)
\* SELECT * FROM ks.<table> LIMIT 100
PagedScans == {Select(Ks, tb, All, <<>>, Some(100)) : tb \in {"s", "t"}}

OtherWrites ==
    {Delete(Ks, "s", <<>>, << <<"k", Lit(k)>> >>) : k \in Vals}
    \cup {Delete(Ks, "s", <<>>, << <<"k", Lit(1)>>, <<"c", Lit(c)>> >>) : c \in Vals}
    \cup {InsertS(Lit(k), Lit(MaxVal + 1), Lit(1)) : k \in Vals}
    \cup {Delete(Ks, "t", <<>>, TPartition(Lit(1), Lit(1)))}

FirstScanPage(q, p) == PageRequestsLeft /\ FirstPage(q, p)

NextScanPage == PageRequestsLeft /\ NextPage

\* A request of another connection, served between two page requests.
OtherWrite(q) ==
    /\ PageRequestsLeft
    /\ paging.pc = "more"
    /\ \E r \in {Session_process(Session, q, Parameters(<<>>))} :
          /\ Answer([op |-> "Query", query |-> q, values |-> <<>>, conn |-> 2], r)
          /\ \E whole \in {Session_process(r.session, paging.query, Parameters(<<>>))} :
                paging' = [paging EXCEPT
                             !.full = SelectSeq(paging.full,
                                                LAMBDA row : row \in Range(whole.res.value.rows))]
    /\ UNCHANGED <<returned, conc>>

NextScanWrites ==
    \/ \E q \in PagedScans, p \in 1..MaxPageSize : FirstScanPage(q, p)
    \/ NextScanPage
    \/ \E q \in OtherWrites : OtherWrite(q)

SpecScanWrites == Init /\ [][NextScanWrites]_vars

\* C38: when a paginated scan has ended, every row that was in the table
\* throughout has been returned exactly once.
C38_StableRowsAreReturnedOnce ==
    paging.pc \in {"done", "failed"} =>
        /\ paging.pc = "done"
        /\ \A row \in Range(paging.full) :
              Cardinality({i \in 1..Len(paging.pages) : paging.pages[i] = row}) = 1

\* C39: a CREATE TYPE statement sent as a QUERY is answered, and the QUERY
\* requests handled after it, on any connection, are executed and answered.
C39_CreateTypeIsAnsweredAndHarmless ==
    [][\A f \in FramePool :
          (/\ HandledFrame(f) /\ f.version = 4 /\ f.flags = 0 /\ f.opcode = "Query"
           /\ f.body \in {CqlString(CreateType),
                          CqlString(InsertN(Lit(MaxVal), Lit(MaxVal)))})
          => /\ response' # None
             /\ SentOnStream(f)
             /\ ~conc'.poisoned]_vars

\* C40: no table of the storage holds a partition without rows.
C40_NoEmptyPartition ==
    \A ks \in DOMAIN data :
       \A tb \in DOMAIN data[ks] :
          \A pk \in DOMAIN data[ks][tb] : DOMAIN data[ks][tb][pk] # {}

====
